---------------------------- MODULE Spec2Model ----------------------------
(***************************************************************************)
(* Model of elf2dos: the ELF -> LE conversion (package elf, ConvertToLELX) *)
(* and the LE serializer / reader (package module, Program.WriteTo and     *)
(* reader.readProgram).                                                    *)
(*                                                                         *)
(* 32-bit values: a Go uint32 or int32 is represented by the integer in    *)
(* -2^31 .. 2^31-1 that has the same 32-bit pattern (the int32 reading).   *)
(* Arithmetic on them wraps modulo 2^32 (Add32, Sub32), unsigned           *)
(* comparisons are ULe / ULt, and conversions between uint32 and int32     *)
(* are the identity on the pattern, as in Go.                              *)
(***************************************************************************)
EXTENDS Integers, Sequences, FiniteSets, Bags, TLC

\* ------------------------------------------------------------------------
\* 32-bit arithmetic
\* ------------------------------------------------------------------------

Half == 2 ^ 16

\* The 32-bit pattern with high half hi (any integer) and low half lo in 0..65535.
Join32(hi, lo) == (((hi + 32768) % Half) - 32768) * Half + lo

\* a + b modulo 2^32.
Add32(a, b) ==
    LET lo == (a % Half) + (b % Half)
        hi == (a \div Half) + (b \div Half) + (lo \div Half)
    IN  Join32(hi, lo % Half)

\* a - b modulo 2^32.
Sub32(a, b) ==
    LET lo == (a % Half) - (b % Half)
        hi == (a \div Half) - (b \div Half) + (lo \div Half)
    IN  Join32(hi, lo % Half)

\* Unsigned comparison of two 32-bit patterns.
ULe(a, b) ==
    \/ a >= 0 /\ b >= 0 /\ a <= b
    \/ a >= 0 /\ b < 0
    \/ a < 0 /\ b < 0 /\ a <= b

ULt(a, b) == ULe(a, b) /\ a # b

\* Logical (uint32) right shift by pageBits and arithmetic (int32) right shift.
Pow2(n) == 2 ^ n
ShrU(v, n) == (v \div Pow2(n)) % Pow2(32 - n)
ShrS(v, n) == v \div Pow2(n)

\* byte(v), uint16(v): truncating conversions.
Byte(v) == v % 256
U16(v) == v % Half
\* int16(uint16 v)
I16(v) == IF v >= 32768 THEN v - Half ELSE v

\* binary.LittleEndian.PutUint16 / PutUint32 as byte sequences.
PutUint16(v) == << v % 256, (v \div 256) % 256 >>
PutUint32(v) ==
    << v % 256, (v \div 256) % 256, (v \div 65536) % 256, (v \div 16777216) % 256 >>

\* binary.LittleEndian.Uint16 / Uint32 of the bytes of b starting at 0-based offset off.
Uint16(b, off) == b[off + 1] + 256 * b[off + 2]
Uint32(b, off) == Join32(b[off + 3] + 256 * b[off + 4], b[off + 1] + 256 * b[off + 2])

Zeros(n) == [k \in 1..n |-> 0]

\* Go slice b[from:to] of a byte sequence (0-based, half-open).
Slice(b, from, to) == SubSeq(b, from + 1, to)

Max(a, b) == IF a > b THEN a ELSE b
Min(a, b) == IF a < b THEN a ELSE b

\* ------------------------------------------------------------------------
\* package module: constants
\* ------------------------------------------------------------------------

pageBits == 12
pageSize == Pow2(pageBits)

\* ObjFlag, SrcType
ObjR == 1
ObjW == 2
ObjX == 4
Obj32Bit == 8192

SrcOffset32 == 7
SrcRelative32 == 8

pagecount(size) == ShrU(Add32(Add32(size, pageSize), -1), pageBits)


\* ------------------------------------------------------------------------
\* package module: fixup records (appendFixup, readFixup)
\* ------------------------------------------------------------------------

\* The zero value of Fixup.
ZeroFixup == [SrcType |-> 0, Src |-> 0, Target |-> [Obj |-> 0, Off |-> 0], Add |-> 0]

\* fixupRecord always using the long form.
fixupRecordAlwaysLong(f) ==
    << Byte(f.SrcType), 16 >> \o PutUint16(U16(f.Src)) \o << Byte(f.Target.Obj) >>
    \o PutUint32(f.Target.Off)

\* The bytes appendFixup appends to data for fixup f (d[:n]).
fixupRecord(f) ==
    LET long == f.Target.Off > 32767
        flags == IF long THEN 16 ELSE 0
    IN  << Byte(f.SrcType), flags >> \o PutUint16(U16(f.Src)) \o << Byte(f.Target.Obj) >>
        \o (IF long THEN PutUint32(f.Target.Off) ELSE PutUint16(U16(f.Target.Off)))

appendFixup(f, data) == data \o fixupRecord(f)

\* Bit test: v & mask # 0 for a one-bit mask.
HasBit(v, mask) == (v \div mask) % 2 = 1

\* readFixup(data): [n, fix, err]; err = "" on success.
readFixup(data) ==
    LET fail(e) == [n |-> 0, fix |-> ZeroFixup, err |-> e] IN
    IF Len(data) < 7 THEN fail("unexpected end of table")
    ELSE
    LET src == data[1]
        flags == data[2]
        srcoff == I16(Uint16(data, 2))
        wide == HasBit(flags, 64)
        objnum == IF wide THEN Uint16(data, 4) ELSE data[5]
        n0 == IF wide THEN 6 ELSE 5
        rest == Slice(data, n0, Len(data))
        long == HasBit(flags, 16)
    IN  IF HasBit(src, 32) THEN fail("source list fixups unimplemented")
        ELSE IF flags % 4 # 0 THEN fail("imported fixups unimplemented")
        ELSE IF HasBit(flags, 4) THEN fail("additive fixups unimplemented")
        ELSE IF src % 16 > 8 THEN fail("unimplemented source type")
        ELSE IF long /\ Len(rest) < 4 THEN fail("unexpected end of table")
        ELSE IF ~long /\ Len(rest) < 2 THEN fail("unexpected end of table")
        ELSE [n |-> n0 + (IF long THEN 4 ELSE 2),
              fix |-> [SrcType |-> src, Src |-> srcoff,
                       Target |-> [Obj |-> objnum,
                                   Off |-> IF long THEN Uint32(rest, 0) ELSE Uint16(rest, 0)],
                       Add |-> 0],
              err |-> ""]

\* ------------------------------------------------------------------------
\* package module: fixupdata.write
\* ------------------------------------------------------------------------

\* The values off takes in "for off := int32(0); off < limit; off += step".
RECURSIVE LoopOffsets(_, _, _)
LoopOffsets(off, limit, step) ==
    IF off < limit THEN << off >> \o LoopOffsets(off + step, limit, step) ELSE << >>

\* The counting pass visiting each of the four bytes of a fixup.
countOffsetsEveryByte == LoopOffsets(0, 4, 1)

\* The offsets visited by the counting pass and by the placement pass.
countOffsets == LoopOffsets(0, 3, 3)
placeOffsets == LoopOffsets(0, 4, 4)

\* The pages fixup f is assigned to by one pass: pi = (f.Src + off) >> pageBits
\* for each off, kept when pi > last && pi < npage; last is -1 throughout
\* (the loops never assign it).
RECURSIVE fixupPages(_, _, _, _)
fixupPages(f, offs, k, npage) ==
    IF k > Len(offs) THEN << >>
    ELSE LET pi == ShrS(Add32(f.Src, offs[k]), pageBits)
             last == -1
         IN  (IF pi > last /\ pi < npage THEN << pi >> ELSE << >>)
             \o fixupPages(f, offs, k + 1, npage)

\* maxOff after the first loop of fixupdata.write.
RECURSIVE maxFixupOff(_, _, _)
maxFixupOff(fixups, k, m) ==
    IF k > Len(fixups) THEN m
    ELSE LET off == Add32(fixups[k].Src, 3)
         IN  maxFixupOff(fixups, k + 1, IF off > m THEN off ELSE m)

\* The (page, fixup) assignments of a pass, in loop order.
RECURSIVE passHits(_, _, _, _)
passHits(fixups, offs, k, npage) ==
    IF k > Len(fixups) THEN << >>
    ELSE LET pis == fixupPages(fixups[k], offs, 1, npage)
         IN  [j \in 1..Len(pis) |-> [pi |-> pis[j], f |-> fixups[k]]]
             \o passHits(fixups, offs, k + 1, npage)

\* Counting pass: idxs[pi] = number of assignments to page pi (index pi + 1).
countPass(fixups, npage) ==
    LET hits == passHits(fixups, countOffsets, 1, npage)
    IN  [q \in 1..npage |-> Cardinality({j \in 1..Len(hits) : hits[j].pi = q - 1})]

\* Prefix sums: idxs[i] = total of the counts before page i.
RECURSIVE SumTo(_, _)
SumTo(s, n) == IF n = 0 THEN 0 ELSE s[n] + SumTo(s, n - 1)
prefixSums(counts) == [q \in 1..Len(counts) |-> SumTo(counts, q - 1)]

\* Placement pass over the assignments: idxs, assigned, and whether an index
\* ran past the assigned array (a run-time panic in Go).
RECURSIVE placePass(_, _, _, _, _)
placePass(hits, k, idxs, assigned, panic) ==
    IF k > Len(hits) \/ panic THEN [idxs |-> idxs, assigned |-> assigned, panic |-> panic]
    ELSE LET q == hits[k].pi + 1
             idx == idxs[q]
         IN  IF idx >= Len(assigned)
             THEN placePass(hits, k + 1, idxs, assigned, TRUE)
             ELSE placePass(hits, k + 1, [idxs EXCEPT ![q] = idx + 1],
                            [assigned EXCEPT ![idx + 1] = hits[k].f], panic)

\* pageRecords leaving each Src relative to the object instead of the page.
RECURSIVE pageRecordsObjectSrc(_, _, _, _)
pageRecordsObjectSrc(pfixups, k, base, records) ==
    IF k > Len(pfixups) THEN records
    ELSE pageRecordsObjectSrc(pfixups, k + 1, base, appendFixup(pfixups[k], records))

\* The records of one page bucket: Src made page-local, then appendFixup.
RECURSIVE pageRecords(_, _, _, _)
pageRecords(pfixups, k, base, records) ==
    IF k > Len(pfixups) THEN records
    ELSE pageRecords(pfixups, k + 1, base,
                     appendFixup([pfixups[k] EXCEPT !.Src = Sub32(@, base)], records))

\* writeOut storing, for each page, the length of that page's records instead
\* of the length of all records so far.
RECURSIVE writeOutPageLengths(_, _, _, _, _, _, _)
writeOutPageLengths(ends, assigned, q, pos, idxs, pages, records) ==
    IF q > Len(ends) THEN [idxs |-> idxs, pages |-> pages, records |-> records, panic |-> FALSE]
    ELSE LET idx == ends[q] IN
         IF pos > idx \/ idx > Len(assigned)
         THEN [idxs |-> idxs, pages |-> pages, records |-> records, panic |-> TRUE]
         ELSE LET recs == pageRecords(Slice(assigned, pos, idx), 1, (q - 1) * pageSize, records)
              IN  writeOutPageLengths(ends, assigned, q + 1, idx,
                                      [idxs EXCEPT ![q] = Len(pages) \div 4],
                                      pages \o PutUint32(Len(recs) - Len(records)), recs)

\* The write-out loop "for pi, idx := range idxs".
RECURSIVE writeOut(_, _, _, _, _, _, _)
writeOut(ends, assigned, q, pos, idxs, pages, records) ==
    IF q > Len(ends) THEN [idxs |-> idxs, pages |-> pages, records |-> records, panic |-> FALSE]
    ELSE LET idx == ends[q] IN
         IF pos > idx \/ idx > Len(assigned)
         THEN [idxs |-> idxs, pages |-> pages, records |-> records, panic |-> TRUE]
         ELSE LET recs == pageRecords(Slice(assigned, pos, idx), 1, (q - 1) * pageSize, records)
              IN  writeOut(ends, assigned, q + 1, idx,
                           [idxs EXCEPT ![q] = Len(pages) \div 4],
                           pages \o PutUint32(Len(recs)), recs)

\* fixupdata.write(size, fixups) on builder d = [pages, records]:
\* [d, idxs, panic], idxs = << >> for the nil result.
fixupdata_write(d, size, fixups) ==
    LET nil == [d |-> d, idxs |-> << >>, panic |-> FALSE]
        maxOff == maxFixupOff(fixups, 1, -1)
    IN  IF size = 0 THEN nil
        ELSE IF maxOff < 0 THEN nil
        ELSE
        LET n == ShrS(maxOff, pageBits) + 1
            npage == IF n > pagecount(size) THEN n ELSE pagecount(size)
            counts == countPass(fixups, npage)
            starts == prefixSums(counts)
            total == SumTo(counts, npage)
            placed == placePass(passHits(fixups, placeOffsets, 1, npage), 1, starts,
                                [j \in 1..total |-> ZeroFixup], FALSE)
            pages0 == IF Len(d.pages) = 0 THEN Zeros(4) ELSE d.pages
            w == writeOut(placed.idxs, placed.assigned, 1, 0, placed.idxs, pages0, d.records)
        IN  IF placed.panic \/ w.panic
            THEN [d |-> d, idxs |-> << >>, panic |-> TRUE]
            ELSE [d |-> [pages |-> w.pages, records |-> w.records], idxs |-> w.idxs,
                  panic |-> FALSE]

\* ------------------------------------------------------------------------
\* package module: objdata.write, pagedata.write
\* ------------------------------------------------------------------------

\* The object page table slots appended for the fixup page indexes.
RECURSIVE pageSlots(_, _)
pageSlots(fixup, k) ==
    IF k > Len(fixup) THEN << >>
    ELSE << 0, Byte(fixup[k] \div 256), fixup[k] % 256, 0 >> \o pageSlots(fixup, k + 1)

\* objdata.write storing the 0-based position of the object's first slot.
objdata_writeZeroBased(d, obj, fixup, first, count) ==
    LET od == PutUint32(obj.Size) \o PutUint32(obj.Addr) \o PutUint32(obj.Flags)
              \o (IF Len(fixup) # 0
                  THEN PutUint32(Len(d.page) \div 4) \o PutUint32(Len(fixup))
                  ELSE Zeros(8))
              \o Zeros(4)
    IN  [object |-> d.object \o od,
         page |-> IF Len(fixup) # 0 THEN d.page \o pageSlots(fixup, 1) ELSE d.page]

\* objdata.write appending a record without its last (reserved) word.
objdata_writeShortRecord(d, obj, fixup, first, count) ==
    LET od == PutUint32(obj.Size) \o PutUint32(obj.Addr) \o PutUint32(obj.Flags)
              \o (IF Len(fixup) # 0
                  THEN PutUint32(Len(d.page) \div 4 + 1) \o PutUint32(Len(fixup))
                  ELSE Zeros(8))
    IN  [object |-> d.object \o od,
         page |-> IF Len(fixup) # 0 THEN d.page \o pageSlots(fixup, 1) ELSE d.page]

\* objdata.write(obj, fixup, first, count) on builder d = [object, page].
objdata_write(d, obj, fixup, first, count) ==
    LET od == PutUint32(obj.Size) \o PutUint32(obj.Addr) \o PutUint32(obj.Flags)
              \o (IF Len(fixup) # 0
                  THEN PutUint32(Len(d.page) \div 4 + 1) \o PutUint32(Len(fixup))
                  ELSE Zeros(8))
              \o Zeros(4)
    IN  [object |-> d.object \o od,
         page |-> IF Len(fixup) # 0 THEN d.page \o pageSlots(fixup, 1) ELSE d.page]

\* pagedata.write starting a block right where the previous one ended.
pagedata_writeNoFill(d, data) ==
    LET count == pagecount(Len(data))
    IN  IF count # 0
        THEN [d |-> [count |-> d.count + count,
                     offset |-> Len(data) % pageSize,
                     data |-> d.data \o << data >>],
              first |-> d.count + 1, count |-> count]
        ELSE [d |-> d, first |-> 0, count |-> 0]

\* pagedata.write(data) on builder d = [count, offset, data]: [d, first, count].
pagedata_write(d, data) ==
    LET count == pagecount(Len(data))
    IN  IF count # 0
        THEN [d |-> [count |-> d.count + count,
                     offset |-> Len(data) % pageSize,
                     data |-> (IF d.offset # 0
                               THEN Append(d.data, Zeros(pageSize - d.offset))
                               ELSE d.data) \o << data >>],
              first |-> d.count + 1, count |-> count]
        ELSE [d |-> d, first |-> 0, count |-> 0]

\* ------------------------------------------------------------------------
\* package module: reader (readProgram and its helpers)
\* ------------------------------------------------------------------------

\* The header fields the reader uses, by the offset the layout of
\* ProgramHeader gives them.
programHeader(data) ==
    [Signature |-> << data[1], data[2] >>,
     ModuleNumPages |-> Uint32(data, 20),
     EIP |-> [Obj |-> Uint32(data, 24), Off |-> Uint32(data, 28)],
     ESP |-> [Obj |-> Uint32(data, 32), Off |-> Uint32(data, 36)],
     PageSize |-> Uint32(data, 40),
     LastPageSize |-> Uint32(data, 44),
     FixupSectionSize |-> Uint32(data, 48),
     LoaderSectionSize |-> Uint32(data, 56),
     ObjectTableOffset |-> Uint32(data, 64),
     NumObjects |-> Uint32(data, 68),
     ObjectPageTableOffset |-> Uint32(data, 72),
     FixupPageTableOffset |-> Uint32(data, 104),
     FixupRecordOffset |-> Uint32(data, 108),
     DataPagesOffset |-> Uint32(data, 128)]

\* The size in bytes of each field of ProgramHeader, in declaration order:
\* Signature [2]byte, ByteOrder and WordOrder uint8, FormatLevel uint32,
\* CPUType and OSType uint16, ModuleVersion, ModuleFlags and ModuleNumPages
\* uint32, EIP and ESP Ref (two int32 each), then the 33 uint32 fields from
\* PageSize to HeapSize.
ProgramHeaderFields ==
    << 2, 1, 1, 4, 2, 2, 4, 4, 4, 8, 8 >> \o [i \in 1..33 |-> 4]

\* The length of binary.Write's output for a struct of fixed-size fields: the
\* fields are written one after the other, without padding.
RECURSIVE binarySize(_, _)
binarySize(fields, n) == IF n = 0 THEN 0 ELSE fields[n] + binarySize(fields, n - 1)

\* ProgramHeader.IsLE: the signature is "LE" (0x4C 0x45).
IsLE(h) == h.Signature = << 76, 69 >>

\* The bounds test of reader.setSection and reader.read: the range
\* [offset, offset+size) of uint32 values lies inside a file of fsize bytes.
inFile(fsize, offset, size) ==
    /\ offset >= 0 /\ size >= 0
    /\ offset <= fsize
    /\ size <= fsize - offset

\* reader.read: the dsize bytes at doffset.
readAt(file, doffset, dsize) == Slice(file, doffset, doffset + dsize)

\* One ObjectHeader (24 bytes, little endian) at 0-based offset off.
objectHeader(data, off) ==
    [VirtualSize |-> Uint32(data, off),
     BaseAddress |-> Uint32(data, off + 4),
     Flags |-> Uint32(data, off + 8),
     PageTableIndex |-> Uint32(data, off + 12),
     NumPageTableEntries |-> Uint32(data, off + 16),
     Reserved |-> Uint32(data, off + 20)]

\* One ObjectPageHeader (4 bytes, big endian) at 0-based offset off.
objectPageHeader(data, off) ==
    [Reserved1 |-> data[off + 1],
     FixupPageIndex |-> 256 * data[off + 2] + data[off + 3],
     Reserved2 |-> data[off + 4]]

\* Whether readObjectPageTable gives the object a slice of the page table.
hasPages(h) == h.NumPageTableEntries # 0 /\ h.PageTableIndex # 0

\* count in readObjectPageTable: the largest end of an object's range.
RECURSIVE pageTableCount(_, _, _)
pageTableCount(hdrs, k, count) ==
    IF k > Len(hdrs) THEN count
    ELSE LET oend == hdrs[k].PageTableIndex - 1 + hdrs[k].NumPageTableEntries
         IN  pageTableCount(hdrs, k + 1,
                            IF hasPages(hdrs[k]) /\ oend > count THEN oend ELSE count)

\* obj.Pages: table[PageTableIndex-1 : PageTableIndex-1+NumPageTableEntries].
objectPages(h, table) ==
    IF hasPages(h)
    THEN Slice(table, h.PageTableIndex - 1, h.PageTableIndex - 1 + h.NumPageTableEntries)
    ELSE << >>

\* maxIndex in readFixupPageTable.
RECURSIVE maxFixupPageIndex(_, _, _)
maxFixupPageIndex(hdrs, table, k) ==
    IF k > Len(hdrs) THEN 0
    ELSE LET pages == objectPages(hdrs[k], table)
             here == IF Len(pages) = 0 THEN 0
                     ELSE CHOOSE m \in {pages[j].FixupPageIndex : j \in 1..Len(pages)} :
                              \A j \in 1..Len(pages) : pages[j].FixupPageIndex <= m
         IN  Max(here, maxFixupPageIndex(hdrs, table, k + 1))

\* "fixup offset table jumps backwards"
jumpsBackwards(offsets) ==
    \E j \in 1..Len(offsets) : ULt(offsets[j], IF j = 1 THEN 0 ELSE offsets[j - 1])

\* The loop "for len(fdata) != 0" of readFixupRecords: [fixups, err].
RECURSIVE readPageFixups(_, _)
readPageFixups(fdata, fixups) ==
    IF Len(fdata) = 0 THEN [fixups |-> fixups, err |-> ""]
    ELSE LET r == readFixup(fdata)
         IN  IF r.err # "" THEN [fixups |-> fixups, err |-> r.err]
             ELSE readPageFixups(Slice(fdata, r.n, Len(fdata)), Append(fixups, r.fix))

\* pageFixups of readFixupRecords, one entry per fixup page.
pageFixupsOf(data, pageTable) ==
    [j \in 1..(Len(pageTable) - 1) |->
        IF pageTable[j] = pageTable[j + 1] THEN [fixups |-> << >>, err |-> ""]
        ELSE readPageFixups(Slice(data, pageTable[j], pageTable[j + 1]), << >>)]

\* dataSize of readObjectData.
objectDataSize(h, lastPageSize) ==
    IF h.NumPageTableEntries = 0 THEN 0
    ELSE LET dataSize == (h.NumPageTableEntries - 1) * pageSize + lastPageSize
         IN  IF ULt(h.VirtualSize, dataSize) THEN h.VirtualSize ELSE dataSize

\* lastObject of readProgram: index (0-based) of the last object with page
\* table entries, 0 when there is none.
lastObjectOf(hdrs) ==
    LET with == {k \in 1..Len(hdrs) : hdrs[k].NumPageTableEntries # 0}
    IN  IF with = {} THEN 0 ELSE (CHOOSE k \in with : \A j \in with : j <= k) - 1

\* The loop over the objects at the end of readProgram: [datas, err].
RECURSIVE readObjectsData(_, _, _, _, _, _)
readObjectsData(file, hdrs, lastPageSize, k, dataOffset, datas) ==
    IF k > Len(hdrs) THEN [datas |-> datas, err |-> ""]
    ELSE LET lps == IF k - 1 = lastObjectOf(hdrs) THEN lastPageSize ELSE pageSize
             n == objectDataSize(hdrs[k], lps)
         IN  IF hdrs[k].NumPageTableEntries = 0
             THEN readObjectsData(file, hdrs, lastPageSize, k + 1, dataOffset,
                                  Append(datas, << >>))
             ELSE IF n > Len(file) - dataOffset
             THEN [datas |-> datas, err |-> "could not read object data"]
             ELSE readObjectsData(file, hdrs, lastPageSize, k + 1, dataOffset + n,
                                  Append(datas, readAt(file, dataOffset, n)))

\* reader.readProgram on the bytes of a file: [err, h, Objects]; err = "" on
\* success, and each object is [hdr, Pages, Data], a page [FixupPageIndex, Fixups].
readProgram(file) ==
    LET fsize == Len(file)
        fail(e) == [err |-> e, h |-> << >>, Objects |-> << >>]
    IN
    IF fsize < 172 THEN fail("could not read program header")
    ELSE
    LET h == programHeader(file) IN
    IF ~IsLE(h) THEN fail("unknown program signature")
    ELSE IF h.PageSize # pageSize THEN fail("unsupported page size")
    ELSE IF h.LastPageSize = 0 \/ ULt(pageSize, h.LastPageSize)
         THEN fail("invalid last page size")
    ELSE IF ULt(64, h.NumObjects) THEN fail("too many objects")
    ELSE IF ~inFile(fsize, h.ObjectTableOffset, h.LoaderSectionSize)
         THEN fail("loader section extends beyond end of file")
    ELSE IF ~inFile(fsize, h.FixupPageTableOffset, h.FixupSectionSize)
         THEN fail("fixup section extends beyond end of file")
    ELSE IF h.DataPagesOffset < 0 \/ h.DataPagesOffset > fsize
         THEN fail("start of data pages are past end of file")
    ELSE IF ~inFile(fsize, h.ObjectTableOffset, h.NumObjects * 24)
         THEN fail("could not read object table")
    ELSE
    LET hdrs == [k \in 1..h.NumObjects |-> objectHeader(file, h.ObjectTableOffset + 24 * (k - 1))]
        count == pageTableCount(hdrs, 1, 0)
    IN
    IF ~inFile(fsize, h.ObjectPageTableOffset, count * 4)
    THEN fail("could not read object page table")
    ELSE
    LET table == [j \in 1..count |-> objectPageHeader(file, h.ObjectPageTableOffset + 4 * (j - 1))]
        maxIndex == maxFixupPageIndex(hdrs, table, 1)
    IN
    IF maxIndex # 0 /\ ~inFile(fsize, h.FixupPageTableOffset, 4 * (maxIndex + 1))
    THEN fail("could not read fixup page table")
    ELSE
    LET pageTable == IF maxIndex = 0 THEN << >>
                     ELSE [j \in 1..(maxIndex + 1) |->
                              Uint32(file, h.FixupPageTableOffset + 4 * (j - 1))]
    IN
    IF jumpsBackwards(pageTable) THEN fail("could not read fixup page table")
    ELSE IF Len(pageTable) # 0
            /\ ~inFile(fsize, h.FixupRecordOffset, pageTable[Len(pageTable)])
         THEN fail("could not read fixup records")
    ELSE
    LET records == IF Len(pageTable) = 0 THEN << >>
                   ELSE readAt(file, h.FixupRecordOffset, pageTable[Len(pageTable)])
        pageFixups == IF Len(pageTable) = 0 THEN << >> ELSE pageFixupsOf(records, pageTable)
    IN
    IF \E j \in 1..Len(pageFixups) : pageFixups[j].err # ""
    THEN fail("could not read fixup records")
    ELSE
    LET pagesOf(k) ==
            LET pages == objectPages(hdrs[k], table)
            IN  [j \in 1..Len(pages) |->
                    [FixupPageIndex |-> pages[j].FixupPageIndex,
                     Fixups |-> IF pages[j].FixupPageIndex # 0 /\ Len(pageTable) # 0
                                THEN pageFixups[pages[j].FixupPageIndex].fixups
                                ELSE << >>]]
        datas == readObjectsData(file, hdrs, h.LastPageSize, 1, h.DataPagesOffset, << >>)
    IN
    IF datas.err # "" THEN fail(datas.err)
    ELSE [err |-> "", h |-> h,
          Objects |-> [k \in 1..Len(hdrs) |->
                          [hdr |-> hdrs[k], Pages |-> pagesOf(k), Data |-> datas.datas[k]]]]

\* ------------------------------------------------------------------------
\* package module: Program.dumpBlocks, Program.WriteTo
\* ------------------------------------------------------------------------

\* le.PutUint16(h[off:], v) and le.PutUint32(h[off:], v) on a byte array.
SetUint16(h, off, v) ==
    [k \in 1..Len(h) |-> IF k > off /\ k <= off + 2 THEN PutUint16(v)[k - off] ELSE h[k]]
SetUint32(h, off, v) ==
    [k \in 1..Len(h) |-> IF k > off /\ k <= off + 4 THEN PutUint32(v)[k - off] ELSE h[k]]

\* headerFixed without the signature bytes.
headerFixedNoSignature(p, pd) ==
    LET h2 == SetUint32(SetUint16(Zeros(172), 8, 2), 20, pd.count)
        h4 == SetUint32(SetUint32(h2, 24, p.Entry.Obj), 28, p.Entry.Off)
        h6 == SetUint32(SetUint32(h4, 32, p.Stack.Obj), 36, p.Stack.Off)
        h8 == SetUint32(SetUint32(h6, 40, pageSize), 44, pd.offset)
    IN  SetUint32(h8, 68, Len(p.Objects))

\* The header fields dumpBlocks sets before measuring the blocks.
headerFixed(p, pd) ==
    LET h0 == [k \in 1..172 |-> IF k = 1 THEN 76 ELSE IF k = 2 THEN 69 ELSE 0]
        h1 == SetUint16(h0, 8, 2)
        h2 == SetUint32(h1, 20, pd.count)
        h3 == SetUint32(h2, 24, p.Entry.Obj)
        h4 == SetUint32(h3, 28, p.Entry.Off)
        h5 == SetUint32(h4, 32, p.Stack.Obj)
        h6 == SetUint32(h5, 36, p.Stack.Off)
        h7 == SetUint32(h6, 40, pageSize)
        h8 == SetUint32(h7, 44, pd.offset)
    IN  SetUint32(h8, 68, Len(p.Objects))

\* headerPatched giving the end of the fixup page table as the offset of the
\* data pages.
headerPatchedDataAtRecords(h, od, fd) ==
    LET pos0 == Len(h)
        pos1 == pos0 + Len(od.object)
        pos2 == pos1 + Len(od.page)
        pos3 == pos2 + Len(fd.pages)
        pos4 == pos3 + Len(fd.records)
        a == SetUint32(h, 64, pos0)
        b == SetUint32(a, 72, pos1)
        c == SetUint32(b, 56, pos2 - pos0)
        d == SetUint32(c, 104, pos2)
        e == SetUint32(d, 108, pos3)
        f == SetUint32(e, 48, pos4 - pos2)
    IN  SetUint32(f, 128, pos3)

\* The header after the offsets are patched in: datawriter.pos advances by
\* the length of each block written.
headerPatched(h, od, fd) ==
    LET pos0 == Len(h)
        pos1 == pos0 + Len(od.object)
        pos2 == pos1 + Len(od.page)
        pos3 == pos2 + Len(fd.pages)
        pos4 == pos3 + Len(fd.records)
        a == SetUint32(h, 64, pos0)
        b == SetUint32(a, 72, pos1)
        c == SetUint32(b, 56, pos2 - pos0)
        d == SetUint32(c, 104, pos2)
        e == SetUint32(d, 108, pos3)
        f == SetUint32(e, 48, pos4 - pos2)
    IN  SetUint32(f, 128, pos4)

\* The blocks dumpBlocks returns once the loop over the objects is done.
dumpBlocksTail(p, od, fd, pd) ==
    << headerPatched(headerFixed(p, pd), od, fd), od.object, od.page, fd.pages, fd.records >>
    \o pd.data

\* The concatenation of byte slices, i.e. what a writer receives.
RECURSIVE Concat(_, _)
Concat(bs, k) == IF k > Len(bs) THEN << >> ELSE bs[k] \o Concat(bs, k + 1)

\* ------------------------------------------------------------------------
\* package elf: the ELF -> LE conversion
\* ------------------------------------------------------------------------

\* debug/elf values used by the converter.
PT_NULL == 0
PT_LOAD == 1
PT_DYNAMIC == 2
PT_NOTE == 4
ptGNUEHFrame == 1685382481
PF_X == 1
PF_W == 2
PF_R == 4
SHT_NULL == 0
SHT_PROGBITS == 1
SHT_RELA == 4
SHT_REL == 9
SHN_ABS == 65521
SHN_COMMON == 65522
R_386_32 == 1
R_386_PC32 == 2
R_386_GOT32 == 3

\* objAbsolute = int32(^uint32(0) >> 1)
objAbsolute == 2147483647

\* addrRange.hasAddr, addrRange.contains (uint32 arithmetic, wrapping).
hasAddr(x, addr) == ULe(x.addr, addr) /\ ULe(addr, Add32(x.addr, x.size))
contains(x, y) == ULe(x.addr, y.addr) /\ ULe(Add32(y.addr, y.size), Add32(x.addr, x.size))

\* The position (1-based) of the first segment satisfying test, 0 if none:
\* "for i, s := range segs { if test(s) { ...; break } }".
RECURSIVE firstSeg(_, _, _)
firstSeg(segs, test(_), k) ==
    IF k > Len(segs) THEN 0
    ELSE IF test(segs[k]) THEN k
    ELSE firstSeg(segs, test, k + 1)

\* resolveAddr(segs, addr)
resolveAddr(segs, addr) ==
    LET t(s) == hasAddr(s, addr)
        i == firstSeg(segs, t, 1)
    IN  IF i = 0 THEN [Obj |-> 0, Off |-> 0]
        ELSE [Obj |-> i, Off |-> Sub32(addr, segs[i].addr)]

\* readLoadSegment giving the object the size of the segment in the file.
readLoadSegmentFileSize(i, p) ==
    LET flags == Obj32Bit
                 + (IF HasBit(p.Flags, PF_X) THEN ObjX ELSE 0)
                 + (IF HasBit(p.Flags, PF_W) THEN ObjW ELSE 0)
                 + (IF HasBit(p.Flags, PF_R) THEN ObjR ELSE 0)
        fail(e) == [err |-> e, seg |-> << >>]
    IN  IF ~HasBit(p.Flags, PF_R)
        THEN fail("segment is loadable but not readable, which is unsupported")
        ELSE IF p.Flags \div 8 # 0 THEN fail("segment has unknown flags")
        ELSE IF p.Filesz > 0 /\ Len(p.Data) < p.Filesz THEN fail("could not read segment")
        ELSE [err |-> "",
              seg |-> [addr |-> p.Vaddr, size |-> p.Filesz, index |-> i,
                       object |-> [Flags |-> flags, Size |-> p.Filesz, Addr |-> p.Vaddr,
                                   Data |-> IF p.Filesz > 0 THEN Slice(p.Data, 0, p.Filesz)
                                            ELSE << >>,
                                   Fixups |-> << >>]]]

\* readLoadSegment(i, p): [err, seg]; i is the program header index.
readLoadSegment(i, p) ==
    LET flags == Obj32Bit
                 + (IF HasBit(p.Flags, PF_X) THEN ObjX ELSE 0)
                 + (IF HasBit(p.Flags, PF_W) THEN ObjW ELSE 0)
                 + (IF HasBit(p.Flags, PF_R) THEN ObjR ELSE 0)
        fail(e) == [err |-> e, seg |-> << >>]
    IN  IF ~HasBit(p.Flags, PF_R)
        THEN fail("segment is loadable but not readable, which is unsupported")
        ELSE IF p.Flags \div 8 # 0 THEN fail("segment has unknown flags")
        ELSE IF p.Filesz > 0 /\ Len(p.Data) < p.Filesz THEN fail("could not read segment")
        ELSE [err |-> "",
              seg |-> [addr |-> p.Vaddr, size |-> p.Memsz, index |-> i,
                       object |-> [Flags |-> flags, Size |-> p.Memsz, Addr |-> p.Vaddr,
                                   Data |-> IF p.Filesz > 0 THEN Slice(p.Data, 0, p.Filesz)
                                            ELSE << >>,
                                   Fixups |-> << >>]]]

\* assignSegments treating a program header of any other type as discarded.
RECURSIVE assignSegmentsAnyType(_, _, _)
assignSegmentsAnyType(progs, k, segments) ==
    IF k > Len(progs) THEN [err |-> "", segs |-> segments, at |-> -1]
    ELSE LET p == progs[k] IN
         IF p.Type = PT_LOAD
         THEN LET r == readLoadSegment(k - 1, p)
              IN  IF r.err # "" THEN [err |-> r.err, segs |-> << >>, at |-> k - 1]
                  ELSE assignSegmentsAnyType(progs, k + 1, Append(segments, r.seg))
         ELSE assignSegmentsAnyType(progs, k + 1, segments)

\* assignSegments(f): [err, segs, at]; k-1 is the program header index, and
\* at is the index wrapErrorSegment puts in the error (-1 without error).
RECURSIVE assignSegments(_, _, _)
assignSegments(progs, k, segments) ==
    IF k > Len(progs) THEN [err |-> "", segs |-> segments, at |-> -1]
    ELSE LET p == progs[k] IN
         IF p.Type \in {PT_NULL, PT_NOTE, ptGNUEHFrame}
         THEN assignSegments(progs, k + 1, segments)
         ELSE IF p.Type = PT_LOAD
         THEN LET r == readLoadSegment(k - 1, p)
              IN  IF r.err # "" THEN [err |-> r.err, segs |-> << >>, at |-> k - 1]
                  ELSE assignSegments(progs, k + 1, Append(segments, r.seg))
         ELSE [err |-> "segment has type which is unsupported", segs |-> << >>, at |-> k - 1]

\* secObjects[i] of resolveSymbols: seg.index of the first segment whose
\* half-open range holds the section's address, -1 if none.
secObject(segs, s) ==
    LET t(seg) == ULe(seg.addr, s.Addr) /\ ULt(s.Addr, Add32(seg.addr, seg.size))
        i == firstSeg(segs, t, 1)
    IN  IF i = 0 THEN -1 ELSE segs[i].index

\* resolveSymbols(f, segs): [err, panic, syms], a symbol being [addr, Ref, name].
\* segs[obj] with obj outside 0..len(segs)-1 is an index out of range panic.
resolveSymbols(f, segs) ==
    LET secObjects == [i \in 1..Len(f.Sections) |-> secObject(segs, f.Sections[i])]
        inTable(sym) == 0 <= sym.Section /\ sym.Section < Len(secObjects)
        objOf(sym) == secObjects[sym.Section + 1]
        panics(sym) == inTable(sym) /\ (objOf(sym) < 0 \/ objOf(sym) >= Len(segs))
        invalid(sym) == ~inTable(sym) /\ sym.Section # SHN_ABS
        bad == {i \in 1..Len(f.Symbols) : panics(f.Symbols[i]) \/ invalid(f.Symbols[i])}
        firstBad == CHOOSE i \in bad : \A j \in bad : i <= j
    IN  IF bad # {} /\ panics(f.Symbols[firstBad])
        THEN [err |-> "", panic |-> TRUE, syms |-> << >>]
        ELSE IF bad # {}
        THEN [err |-> "symbol has invalid section", panic |-> FALSE, syms |-> << >>]
        ELSE [err |-> "", panic |-> FALSE,
              syms |-> [i \in 1..Len(f.Symbols) |->
                  LET sym == f.Symbols[i] IN
                  [addr |-> sym.Value, name |-> sym.Name,
                   Ref |-> IF inTable(sym)
                           THEN [Obj |-> objOf(sym) + 1,
                                 Off |-> Sub32(sym.Value, segs[objOf(sym) + 1].addr)]
                           ELSE [Obj |-> objAbsolute, Off |-> 0]]]]

\* The stack reference ConvertToLELX finds: the Ref of the last symbol named
\* _stack_end, the zero Ref if there is none.
RECURSIVE findStack(_, _, _)
findStack(syms, k, stack) ==
    IF k > Len(syms) THEN stack
    ELSE findStack(syms, k + 1, IF syms[k].name = "_stack_end" THEN syms[k].Ref ELSE stack)

\* isAbsolute with the test for absolute symbols left out.
isAbsoluteNever(sym) == FALSE

\* "sym.Obj == objAbsolute": the relocation is against an absolute symbol.
isAbsolute(sym) == sym.Ref.Obj = objAbsolute

\* sameObject with the test for intra-object references left out.
sameObjectNever(sym, srcObj) == FALSE

\* "sym.Obj == srcObj": a relative reference within one object.
sameObject(sym, srcObj) == sym.Ref.Obj = srcObj

\* fixOff of an R_386_32 relocation: sym.Off + int32(val-sym.addr).
abs32Offset(sym, val) == Add32(sym.Ref.Off, Sub32(val, sym.addr))

\* fixOff of an R_386_PC32 relocation: sym.Off + int32(val+rel.Off+4-sym.addr).
pc32Offset(sym, val, off) ==
    Add32(sym.Ref.Off, Sub32(Add32(Add32(val, off), 4), sym.addr))

\* addRelocation(rel, segs, syms): [err, panic, segs]; rel = [Off, Info].
\* Reading the 4 bytes at obj.Data[srcOff:] outside the data panics.
addRelocation(rel, segs, syms) ==
    LET t(s) == contains(s, [addr |-> rel.Off, size |-> 4])
        srcObj == firstSeg(segs, t, 1)
        same == [err |-> "", panic |-> FALSE, segs |-> segs]
        fail(e) == [err |-> e, panic |-> FALSE, segs |-> segs]
        rsym == ShrU(rel.Info, 8)
        rtype == rel.Info % 256
    IN
    IF srcObj = 0 THEN same
    ELSE IF rsym = 0 \/ rsym > Len(syms) THEN fail("symbol reference out of bounds")
    ELSE
    LET sym == syms[rsym]
        seg == segs[srcObj]
        obj == seg.object
        srcOff == Sub32(rel.Off, seg.addr)
    IN
    IF sym.Ref.Obj = 0 THEN fail("unresolved symbol")
    ELSE IF isAbsolute(sym) THEN same
    ELSE IF srcOff < 0 \/ srcOff + 4 > Len(obj.Data)
    THEN [err |-> "", panic |-> TRUE, segs |-> segs]
    ELSE
    LET val == Uint32(obj.Data, srcOff)
        emit(srcType, fixOff) ==
            [err |-> "", panic |-> FALSE,
             segs |-> [segs EXCEPT ![srcObj].object.Fixups =
                          Append(@, [SrcType |-> srcType, Src |-> srcOff,
                                     Target |-> [Obj |-> sym.Ref.Obj, Off |-> fixOff],
                                     Add |-> 0])]]
    IN
    IF rtype = R_386_32
    THEN emit(SrcOffset32, abs32Offset(sym, val))
    ELSE IF rtype = R_386_PC32
    THEN IF sameObject(sym, srcObj) THEN same
         ELSE emit(SrcRelative32, pc32Offset(sym, val, rel.Off))
    ELSE fail("unsupported relocation type")

\* ------------------------------------------------------------------------
\* Programs given to the serializer
\* ------------------------------------------------------------------------

MaxObjects == 2

Fx(t, src, obj, off) ==
    [SrcType |-> t, Src |-> src, Target |-> [Obj |-> obj, Off |-> off], Add |-> 0]

\* n bytes of non-zero content.
DataBytes(n, seed) == [k \in 1..n |-> 1 + ((k + seed) % 255)]

\* The objects a program is made of: a one-page object without fixups, a
\* two-page object whose data fills a page exactly and that has a fixup
\* straddling the page boundary, a pure BSS object with a relative fixup in
\* its second page only, an object that ends just after a page boundary, a
\* full page without fixups, a small object with a BSS tail, and a two-page
\* object whose fixups are listed out of address order, one of them with a
\* target before the symbol it names (a negative target offset).
ObjectMenu ==
    << [Flags |-> ObjR + ObjX + Obj32Bit, Size |-> 64, Addr |-> 65536,
        Data |-> DataBytes(64, 0), Fixups |-> << >>],
       [Flags |-> ObjR + ObjW + Obj32Bit, Size |-> 8192, Addr |-> 131072,
        Data |-> DataBytes(4096, 1),
        Fixups |-> << Fx(SrcOffset32, 4094, 1, 16), Fx(SrcOffset32, 0, 1, 32768) >>],
       [Flags |-> ObjR + ObjW + Obj32Bit, Size |-> 8192, Addr |-> 196608,
        Data |-> << >>, Fixups |-> << Fx(SrcRelative32, 4096, 1, 32767) >>],
       [Flags |-> ObjR + ObjX + Obj32Bit, Size |-> 4100, Addr |-> 262144,
        Data |-> DataBytes(4100, 2),
        Fixups |-> << Fx(SrcOffset32, 4093, 1, 8), Fx(SrcOffset32, 4092, 1, 70000),
                      Fx(SrcOffset32, 8, 1, 0) >>],
       [Flags |-> ObjR + Obj32Bit, Size |-> 4096, Addr |-> 327680,
        Data |-> DataBytes(4096, 3), Fixups |-> << >>],
       [Flags |-> ObjR + ObjW + Obj32Bit, Size |-> 100, Addr |-> 393216,
        Data |-> DataBytes(10, 4), Fixups |-> << Fx(SrcOffset32, 0, 1, 4) >>],
       [Flags |-> ObjR + ObjW + Obj32Bit, Size |-> 4200, Addr |-> 458752,
        Data |-> DataBytes(20, 5),
        Fixups |-> << Fx(SrcOffset32, 8, 1, -4), Fx(SrcOffset32, 4100, 1, 12),
                      Fx(SrcOffset32, 4, 1, 12) >>] >>

\* A program the converter can produce: every fixup targets an object of the
\* program, and a relative fixup never targets its own object.
ValidProgram(p) ==
    \A k \in 1..Len(p.Objects) : \A j \in 1..Len(p.Objects[k].Fixups) :
        LET f == p.Objects[k].Fixups[j]
        IN  /\ f.Target.Obj \in 1..Len(p.Objects)
            /\ f.SrcType = SrcRelative32 => f.Target.Obj # k

ProgramOf(choice) ==
    [Entry |-> [Obj |-> 1, Off |-> 0],
     Stack |-> [Obj |-> Len(choice), Off |-> ObjectMenu[choice[Len(choice)]].Size],
     Objects |-> [k \in 1..Len(choice) |-> ObjectMenu[choice[k]]]]

Programs ==
    { p \in { ProgramOf(c) : c \in UNION { [1..n -> 1..Len(ObjectMenu)] : n \in 1..MaxObjects } } :
        ValidProgram(p) }

\* ------------------------------------------------------------------------
\* ELF files given to the converter
\* ------------------------------------------------------------------------

MaxRelocs == 2

\* The addresses the linker gave the two LOAD segments.
TextAddr == 16 * pageSize
DataAddr == 32 * pageSize

Prog(type, flags, vaddr, memsz, filesz) ==
    [Type |-> type, Flags |-> flags, Vaddr |-> vaddr, Memsz |-> memsz, Filesz |-> filesz]
Sym(name, section, value) == [Name |-> name, Section |-> section, Value |-> value]
Rel(off, sym, type, val) == [Off |-> off, Info |-> sym * 256 + type, Val |-> val]

textSeg == Prog(PT_LOAD, PF_R + PF_X, TextAddr, 256, 256)
dataSeg == Prog(PT_LOAD, PF_R + PF_W, DataAddr, 512, 128)
noteSeg == Prog(PT_NOTE, PF_R, 1024, 32, 32)
ehFrameSeg == Prog(ptGNUEHFrame, PF_R, 2048, 64, 64)
nullSeg == Prog(PT_NULL, 0, 0, 0, 0)

\* The section header table: .comment is not loaded, .rel.text holds the
\* relocations. A section index is 0-based.
SectionNames == << "", ".text", ".data", ".comment", ".rel.text" >>
SecIndex(name) == (CHOOSE i \in 1..Len(SectionNames) : SectionNames[i] = name) - 1
SecText == SecIndex(".text")
SecData == SecIndex(".data")
SecComment == SecIndex(".comment")
SecRel == SecIndex(".rel.text")

\* The files without their relocations: program headers, symbols, entry
\* point and the type of the relocation section.
BaseFiles ==
    << \* 1: one segment
       [Progs |-> << textSeg >>,
        Symbols |-> << Sym("_start", SecText, TextAddr), Sym("func", SecText, TextAddr + 64),
                       Sym("_stack_end", SecText, TextAddr + 256), Sym("abs", SHN_ABS, 4660) >>,
        Entry |-> TextAddr, RelType |-> SHT_REL],
       \* 2: text and data, _stack_end at the end of data
       [Progs |-> << textSeg, dataSeg >>,
        Symbols |-> << Sym("_start", SecText, TextAddr), Sym("msg", SecData, DataAddr + 16),
                       Sym("_stack_end", SecData, DataAddr + 512), Sym("abs", SHN_ABS, 4660) >>,
        Entry |-> TextAddr, RelType |-> SHT_REL],
       \* 3: no _stack_end
       [Progs |-> << textSeg, dataSeg >>,
        Symbols |-> << Sym("_start", SecText, TextAddr), Sym("msg", SecData, DataAddr + 16),
                       Sym("_stack_start", SecData, DataAddr + 256), Sym("abs", SHN_ABS, 4660) >>,
        Entry |-> TextAddr, RelType |-> SHT_REL],
       \* 4: _stack_end is an absolute symbol
       [Progs |-> << textSeg, dataSeg >>,
        Symbols |-> << Sym("_start", SecText, TextAddr), Sym("msg", SecData, DataAddr + 16),
                       Sym("_stack_end", SHN_ABS, DataAddr + 512), Sym("abs", SHN_ABS, 4660) >>,
        Entry |-> TextAddr, RelType |-> SHT_REL],
       \* 5: a discarded segment before the LOAD segments, symbols in .text only
       [Progs |-> << noteSeg, textSeg, dataSeg >>,
        Symbols |-> << Sym("_start", SecText, TextAddr), Sym("func", SecText, TextAddr + 64),
                       Sym("_stack_end", SecText, TextAddr + 256), Sym("abs", SHN_ABS, 4660) >>,
        Entry |-> TextAddr, RelType |-> SHT_REL],
       \* 6: a symbol of a section that is not loaded
       [Progs |-> << textSeg, dataSeg >>,
        Symbols |-> << Sym("_start", SecText, TextAddr), Sym("msg", SecData, DataAddr + 16),
                       Sym("_stack_end", SecData, DataAddr + 512), Sym("", SecComment, 0) >>,
        Entry |-> TextAddr, RelType |-> SHT_REL],
       \* 7: a segment of an unsupported type
       [Progs |-> << textSeg, Prog(PT_DYNAMIC, PF_R, DataAddr, 512, 128) >>,
        Symbols |-> << Sym("_start", SecText, TextAddr), Sym("func", SecText, TextAddr + 64),
                       Sym("_stack_end", SecText, TextAddr + 256), Sym("abs", SHN_ABS, 4660) >>,
        Entry |-> TextAddr, RelType |-> SHT_REL],
       \* 8: a LOAD segment that is not readable
       [Progs |-> << textSeg, Prog(PT_LOAD, PF_W, DataAddr, 512, 128) >>,
        Symbols |-> << Sym("_start", SecText, TextAddr), Sym("msg", SecData, DataAddr + 16),
                       Sym("_stack_end", SecData, DataAddr + 512), Sym("abs", SHN_ABS, 4660) >>,
        Entry |-> TextAddr, RelType |-> SHT_REL],
       \* 9: the entry point is in no segment
       [Progs |-> << textSeg, dataSeg >>,
        Symbols |-> << Sym("_start", SecText, TextAddr), Sym("msg", SecData, DataAddr + 16),
                       Sym("_stack_end", SecData, DataAddr + 512), Sym("abs", SHN_ABS, 4660) >>,
        Entry |-> 327680, RelType |-> SHT_REL],
       \* 10: a common symbol
       [Progs |-> << textSeg, dataSeg >>,
        Symbols |-> << Sym("_start", SecText, TextAddr), Sym("msg", SecData, DataAddr + 16),
                       Sym("_stack_end", SecData, DataAddr + 512), Sym("buf", SHN_COMMON, 4) >>,
        Entry |-> TextAddr, RelType |-> SHT_REL],
       \* 11: a RELA relocation section
       [Progs |-> << textSeg, dataSeg >>,
        Symbols |-> << Sym("_start", SecText, TextAddr), Sym("msg", SecData, DataAddr + 16),
                       Sym("_stack_end", SecData, DataAddr + 512), Sym("abs", SHN_ABS, 4660) >>,
        Entry |-> TextAddr, RelType |-> SHT_RELA],
       \* 12: the entry point is in no segment and a symbol is common
       [Progs |-> << textSeg, dataSeg >>,
        Symbols |-> << Sym("_start", SecText, TextAddr), Sym("msg", SecData, DataAddr + 16),
                       Sym("_stack_end", SecData, DataAddr + 512), Sym("buf", SHN_COMMON, 4) >>,
        Entry |-> 327680, RelType |-> SHT_REL],
       \* 13: a second LOAD segment that starts exactly where the first ends,
       \* the entry point being its first byte; discarded segments follow
       [Progs |-> << textSeg, Prog(PT_LOAD, PF_R + PF_W, TextAddr + 256, 512, 128),
                     ehFrameSeg, nullSeg >>,
        Symbols |-> << Sym("_start", SecText, TextAddr), Sym("func", SecText, TextAddr + 64),
                       Sym("_stack_end", SecText, TextAddr + 256), Sym("abs", SHN_ABS, 4660) >>,
        Entry |-> TextAddr + 256, RelType |-> SHT_REL],
       \* 14: a LOAD segment with a flag bit outside PF_R|PF_W|PF_X, after a
       \* discarded segment
       [Progs |-> << noteSeg, textSeg, Prog(PT_LOAD, PF_R + PF_W + 8, DataAddr, 512, 128) >>,
        Symbols |-> << Sym("_start", SecText, TextAddr), Sym("msg", SecData, DataAddr + 16),
                       Sym("_stack_end", SecData, DataAddr + 512), Sym("abs", SHN_ABS, 4660) >>,
        Entry |-> TextAddr, RelType |-> SHT_REL] >>

\* The relocations a file can carry, with the value the linker stored at the
\* site: symbol 1 is _start, 2 is msg (or func), 3 is the stack symbol, 4 is
\* the absolute (or not loaded, or common) symbol. Two have their site in the
\* part of the data segment that the file does not back (Memsz > Filesz); the
\* last has offset 0xFFFFFFFE, so that offset + 4 wraps around 2^32.
RelocMenu ==
    << Rel(TextAddr + 16, 2, R_386_32, DataAddr + 20),
       Rel(TextAddr + 32, 1, R_386_PC32, -36),
       Rel(TextAddr + 48, 2, R_386_PC32, 65500),
       Rel(DataAddr + 32, 2, R_386_32, 0),
       Rel(TextAddr + 64, 4, R_386_32, 4660),
       Rel(TextAddr + 80, 1, R_386_GOT32, 0),
       Rel(TextAddr + 96, 5, R_386_32, 0),
       Rel(327680, 9, R_386_GOT32, 0),
       Rel(DataAddr + 256, 2, R_386_GOT32, 0),
       Rel(DataAddr + 272, 1, R_386_32, 0),
       Rel(-2, 2, R_386_32, 0) >>

\* The relocation lists: up to MaxRelocs different relocations, in any order.
RECURSIVE RelocListsOf(_)
RelocListsOf(n) ==
    IF n = 0 THEN { << >> }
    ELSE LET shorter == RelocListsOf(n - 1)
         IN  shorter \cup { Append(l, r) : l \in { x \in shorter : Len(x) = n - 1 },
                                           r \in 1..Len(RelocMenu) }
RelocLists ==
    { l \in RelocListsOf(MaxRelocs) : \A i, j \in 1..Len(l) : i # j => l[i] # l[j] }

\* The file bytes of a segment: the linker has stored each relocation's value
\* at its site, the other bytes are non-zero content.
segmentData(p, rels) ==
    [k \in 1..p.Filesz |->
        LET a == p.Vaddr + k - 1
            at == {j \in 1..Len(rels) : rels[j].Off <= a /\ a < rels[j].Off + 4}
        IN  IF at = {} THEN 1 + (k % 255)
            ELSE LET j == CHOOSE j \in at : TRUE
                 IN  PutUint32(rels[j].Val)[a - rels[j].Off + 1]]

\* The ELF file made of base file b and the relocations l (indexes of RelocMenu).
ElfFile(b, l) ==
    LET base == BaseFiles[b]
        rels == [j \in 1..Len(l) |-> RelocMenu[l[j]]]
        sec(type, addr, info, rs) ==
            [Type |-> type, Addr |-> addr, Info |-> info, Rels |-> rs, Size |-> 8 * Len(rs)]
    IN  [Progs |-> [k \in 1..Len(base.Progs) |->
                       [Type |-> base.Progs[k].Type, Flags |-> base.Progs[k].Flags,
                        Vaddr |-> base.Progs[k].Vaddr, Memsz |-> base.Progs[k].Memsz,
                        Filesz |-> base.Progs[k].Filesz,
                        Data |-> segmentData(base.Progs[k], rels)]],
         Sections |-> << sec(SHT_NULL, 0, 0, << >>),
                         sec(SHT_PROGBITS, TextAddr, 0, << >>),
                         sec(SHT_PROGBITS, DataAddr, 0, << >>),
                         sec(SHT_PROGBITS, 0, 0, << >>),
                         sec(base.RelType, 0, SecText,
                             [j \in 1..Len(rels) |-> [Off |-> rels[j].Off, Info |-> rels[j].Info]]) >>,
         Symbols |-> base.Symbols,
         Entry |-> base.Entry]

ElfFiles == { ElfFile(b, l) : b \in 1..Len(BaseFiles), l \in RelocLists }

\* ------------------------------------------------------------------------
\* State
\* ------------------------------------------------------------------------

VARIABLES
    elf,        \* the ELF file being converted: [Progs, Sections, Symbols, Entry]
    cpc,        \* where ConvertToLELX is: "assign", "entry", "symbols", "stack",
                \* "sections", "relocs", "done", "error", "panic" ("none": no conversion)
    cerr,       \* the error ConvertToLELX returned, "" if none
    segs,       \* the segments, each with its object (and the object's fixups)
    entry,      \* the resolved entry point
    syms,       \* the resolved symbols
    stack,      \* the stack reference
    si,         \* index of the section readSections is at
    ri,         \* relocations of that section handled so far
    prog,       \* the Program being written: [Entry, Stack, Objects]
    wpc,        \* where WriteTo is: "idle", "objects", "blocks", "written", "read", "panic"
    oi,         \* objects handled so far by the loop of dumpBlocks
    objdata,    \* the objdata builder: [object, page]
    fixupdata,  \* the fixupdata builder: [pages, records]
    pagedata,   \* the pagedata builder: [count, offset, data]
    ret,        \* per handled object: [first, count, fixup] as returned by the builders
    blocks,     \* the blocks dumpBlocks returned
    out,        \* the bytes the writer received
    rd          \* the result of readProgram on those bytes

cvars == << elf, cpc, cerr, segs, entry, syms, stack, si, ri >>
wvars == << oi, objdata, fixupdata, pagedata, ret, blocks, out, rd >>
vars == << elf, cpc, cerr, segs, entry, syms, stack, si, ri,
           prog, wpc, oi, objdata, fixupdata, pagedata, ret, blocks, out, rd >>

NoRef == [Obj |-> 0, Off |-> 0]
NoProgram == [Entry |-> NoRef, Stack |-> NoRef, Objects |-> << >>]

\* The builders of dumpBlocks before its loop.
InitBuilders ==
    /\ oi = 0
    /\ objdata = [object |-> << >>, page |-> << >>]
    /\ fixupdata = [pages |-> << >>, records |-> << >>]
    /\ pagedata = [count |-> 0, offset |-> 0, data |-> << >>]
    /\ ret = << >>
    /\ blocks = << >>
    /\ out = << >>
    /\ rd = [err |-> "not read", h |-> << >>, Objects |-> << >>]

\* A conversion (cmdConvert): an ELF file is converted, then written.
Init ==
    /\ elf \in ElfFiles
    /\ cpc = "assign"
    /\ cerr = ""
    /\ segs = << >>
    /\ entry = NoRef
    /\ syms = << >>
    /\ stack = NoRef
    /\ si = 0
    /\ ri = 0
    /\ prog = NoProgram
    /\ wpc = "idle"
    /\ InitBuilders

\* A program is written and read back.
InitWrite ==
    /\ elf = << >>
    /\ cpc = "none"
    /\ cerr = ""
    /\ segs = << >>
    /\ entry = NoRef
    /\ syms = << >>
    /\ stack = NoRef
    /\ si = 0
    /\ ri = 0
    /\ prog \in Programs
    /\ wpc = "objects"
    /\ InitBuilders

\* ---- ConvertToLELX ----

\* Fail recording the error without ending the conversion.
FailKeepGoing(e) ==
    /\ cpc' = cpc
    /\ cerr' = e

Fail(e) ==
    /\ cpc' = "error"
    /\ cerr' = e

\* segs, err := assignSegments(f)
ConvertAssign ==
    /\ cpc = "assign"
    /\ LET r == assignSegments(elf.Progs, 1, << >>)
       IN  IF r.err # "" THEN Fail(r.err) /\ UNCHANGED segs
           ELSE cpc' = "entry" /\ segs' = r.segs /\ UNCHANGED cerr
    /\ UNCHANGED << elf, entry, syms, stack, si, ri, prog, wpc >>
    /\ UNCHANGED wvars

\* entry := resolveAddr(segs, uint32(f.Entry))
ConvertEntry ==
    /\ cpc = "entry"
    /\ entry' = resolveAddr(segs, elf.Entry)
    /\ IF entry'.Obj = 0 THEN Fail("could not resolve entry point")
       ELSE cpc' = "symbols" /\ UNCHANGED cerr
    /\ UNCHANGED << elf, segs, syms, stack, si, ri, prog, wpc >>
    /\ UNCHANGED wvars

\* syms, err := resolveSymbols(f, segs)
ConvertSymbols ==
    /\ cpc = "symbols"
    /\ LET r == resolveSymbols(elf, segs)
       IN  IF r.panic THEN cpc' = "panic" /\ UNCHANGED << cerr, syms >>
           ELSE IF r.err # "" THEN Fail(r.err) /\ UNCHANGED syms
           ELSE cpc' = "stack" /\ syms' = r.syms /\ UNCHANGED cerr
    /\ UNCHANGED << elf, segs, entry, stack, si, ri, prog, wpc >>
    /\ UNCHANGED wvars

\* The search for _stack_end.
ConvertStack ==
    /\ cpc = "stack"
    /\ stack' = findStack(syms, 1, NoRef)
    /\ IF stack'.Obj = 0 THEN Fail("could not find _stack_end")
       ELSE cpc' = "sections" /\ UNCHANGED cerr
    /\ UNCHANGED << elf, segs, entry, syms, si, ri, prog, wpc >>
    /\ UNCHANGED wvars

\* readSections: one section; a REL section's relocations follow one by one.
ConvertSection ==
    /\ cpc = "sections"
    /\ si < Len(elf.Sections)
    /\ LET s == elf.Sections[si + 1] IN
       IF s.Type \notin {SHT_REL, SHT_RELA}
       THEN si' = si + 1 /\ UNCHANGED << cpc, cerr >>
       ELSE IF s.Info < 0 \/ Len(elf.Sections) <= s.Info
       THEN Fail("relocation section refers to invalid section") /\ UNCHANGED si
       ELSE IF s.Type # SHT_REL
       THEN Fail("unsupported relocation section type") /\ UNCHANGED si
       ELSE IF s.Size % 8 # 0
       THEN Fail("REL section length is not a multiple of 8") /\ UNCHANGED si
       ELSE IF Len(s.Rels) = 0
       THEN si' = si + 1 /\ UNCHANGED << cpc, cerr >>
       ELSE cpc' = "relocs" /\ UNCHANGED << si, cerr >>
    /\ ri' = 0
    /\ UNCHANGED << elf, segs, entry, syms, stack, prog, wpc >>
    /\ UNCHANGED wvars

\* readRelocationSection: addRelocation for the next relocation of the section.
ConvertRelocation ==
    /\ cpc = "relocs"
    /\ LET rels == elf.Sections[si + 1].Rels
           r == addRelocation(rels[ri + 1], segs, syms)
       IN  IF r.panic THEN cpc' = "panic" /\ UNCHANGED << cerr, segs, si, ri >>
           ELSE IF r.err # "" THEN Fail(r.err) /\ UNCHANGED << segs, si, ri >>
           ELSE /\ segs' = r.segs
                /\ UNCHANGED cerr
                /\ IF ri + 1 = Len(rels)
                   THEN cpc' = "sections" /\ si' = si + 1 /\ ri' = 0
                   ELSE ri' = ri + 1 /\ UNCHANGED << cpc, si >>
    /\ UNCHANGED << elf, entry, syms, stack, prog, wpc >>
    /\ UNCHANGED wvars

\* The Program ConvertToLELX returns; cmdConvert then writes it.
ConvertDone ==
    /\ cpc = "sections"
    /\ si = Len(elf.Sections)
    /\ cpc' = "done"
    /\ prog' = [Entry |-> entry, Stack |-> stack,
                Objects |-> [k \in 1..Len(segs) |-> segs[k].object]]
    /\ wpc' = "objects"
    /\ UNCHANGED << elf, cerr, segs, entry, syms, stack, si, ri >>
    /\ UNCHANGED wvars

\* ---- Program.WriteTo ----

\* One iteration of "for _, obj := range p.Objects" in dumpBlocks.
dumpBlocksObject ==
    /\ wpc = "objects"
    /\ oi < Len(prog.Objects)
    /\ LET obj == prog.Objects[oi + 1]
           pw == pagedata_write(pagedata, obj.Data)
           fw == fixupdata_write(fixupdata, obj.Size, obj.Fixups)
       IN  IF fw.panic
           THEN /\ wpc' = "panic"
                /\ pagedata' = pw.d
                /\ UNCHANGED << oi, objdata, fixupdata, ret >>
           ELSE /\ pagedata' = pw.d
                /\ fixupdata' = fw.d
                /\ objdata' = objdata_write(objdata, obj, fw.idxs, pw.first, pw.count)
                /\ ret' = Append(ret, [first |-> pw.first, count |-> pw.count, fixup |-> fw.idxs])
                /\ oi' = oi + 1
                /\ UNCHANGED wpc
    /\ UNCHANGED << prog, blocks, out, rd >>
    /\ UNCHANGED cvars

\* The rest of dumpBlocks: the header and the list of blocks.
dumpBlocksHeader ==
    /\ wpc = "objects"
    /\ oi = Len(prog.Objects)
    /\ blocks' = dumpBlocksTail(prog, objdata, fixupdata, pagedata)
    /\ wpc' = "blocks"
    /\ UNCHANGED << prog, oi, objdata, fixupdata, pagedata, ret, out, rd >>
    /\ UNCHANGED cvars

\* WriteTo: every block is written to the writer, in order.
WriteTo ==
    /\ wpc = "blocks"
    /\ out' = Concat(blocks, 1)
    /\ wpc' = "written"
    /\ UNCHANGED << prog, oi, objdata, fixupdata, pagedata, ret, blocks, rd >>
    /\ UNCHANGED cvars

\* Open: the file just written is read back with reader.readProgram.
Open ==
    /\ wpc = "written"
    /\ rd' = readProgram(out)
    /\ wpc' = "read"
    /\ UNCHANGED << prog, oi, objdata, fixupdata, pagedata, ret, blocks, out >>
    /\ UNCHANGED cvars

NextWrite == dumpBlocksObject \/ dumpBlocksHeader \/ WriteTo \/ Open

Next ==
    \/ ConvertAssign \/ ConvertEntry \/ ConvertSymbols \/ ConvertStack
    \/ ConvertSection \/ ConvertRelocation \/ ConvertDone
    \/ dumpBlocksObject \/ dumpBlocksHeader \/ WriteTo \/ Open

Spec == Init /\ [][Next]_vars

SpecWrite == InitWrite /\ [][NextWrite]_vars

\* ------------------------------------------------------------------------
\* Properties of the serializer (specification SpecWrite)
\* ------------------------------------------------------------------------

\* The file has been written.
Serialized == wpc \in {"written", "read"}

\* The header of the written file and the sections its offsets delimit.
OutHeader == programHeader(out)
OutFixupPageTable ==
    LET h == OutHeader
        n == (h.FixupRecordOffset - h.FixupPageTableOffset) \div 4
    IN  [j \in 1..n |-> Uint32(out, h.FixupPageTableOffset + 4 * (j - 1))]
OutFixupRecords == Slice(out, OutHeader.FixupRecordOffset, OutHeader.DataPagesOffset)
OutDataArea == Slice(out, OutHeader.DataPagesOffset, Len(out))

\* The fixup page table built so far, as little-endian u32 entries.
BuiltPageTable ==
    [j \in 1..(Len(fixupdata.pages) \div 4) |-> Uint32(fixupdata.pages, 4 * (j - 1))]

\* The records in the bucket of page pi (0-based) of the k-th object written:
\* fixupdata.write returned the number of the page's entry in the table, and
\* the bucket lies between the entry before it and that entry.
Bucket(k, pi) ==
    IF pi < 0 \/ pi >= Len(ret[k].fixup) THEN << >>
    ELSE LET e == ret[k].fixup[pi + 1]
         IN  readPageFixups(Slice(fixupdata.records, BuiltPageTable[e], BuiltPageTable[e + 1]),
                            << >>).fixups

\* Fixup f crosses a page boundary.
Straddles(f) == ShrS(f.Src, pageBits) # ShrS(f.Src + 3, pageBits)

\* The bucket of page pi of object k holds a record for f with a page-local src.
InBucket(k, pi, f) ==
    \E j \in 1..Len(Bucket(k, pi)) :
        LET r == Bucket(k, pi)[j]
        IN  /\ r.Src = f.Src - pi * pageSize
            /\ r.SrcType = f.SrcType
            /\ r.Target.Obj = f.Target.Obj

\* C1: for every object and every fixup of it whose 4 bytes cross a page
\* boundary, fixupdata.write emits a record for the fixup in the bucket of the
\* page of its first byte and a record in the bucket of the page of its last
\* byte, each with src made local to that page.
C1_StraddlingFixupInBothPages ==
    \A k \in 1..Len(ret) : \A j \in 1..Len(prog.Objects[k].Fixups) :
        LET f == prog.Objects[k].Fixups[j]
        IN  Straddles(f) =>
                /\ InBucket(k, ShrS(f.Src, pageBits), f)
                /\ InBucket(k, ShrS(f.Src + 3, pageBits), f)

\* C2: in the written file the last-page-size field of the header is in
\* 1..pageSize, and the number of pages times pageSize, minus the unused part
\* of the last page, is the number of bytes of the data-page area.
C2_LastPageSize ==
    Serialized =>
        LET h == OutHeader
        IN  /\ h.LastPageSize \in 1..pageSize
            /\ h.ModuleNumPages * pageSize - (pageSize - h.LastPageSize) = Len(OutDataArea)
            /\ OutDataArea = Concat(pagedata.data, 1)

\* The fixups readProgram recovered for object k, by page and position; a
\* record with a negative page-local src is the second copy of a fixup that
\* starts in the page before, and is left out.
RecoveredAt(k) ==
    LET pages == rd.Objects[k].Pages
    IN  { pos \in UNION { {<< j, i >> : i \in 1..Len(pages[j].Fixups)} : j \in 1..Len(pages) } :
            pages[pos[1]].Fixups[pos[2]].Src >= 0 }
RecoveredFixup(k, pos) ==
    LET r == rd.Objects[k].Pages[pos[1]].Fixups[pos[2]]
    IN  [SrcType |-> r.SrcType, Src |-> (pos[1] - 1) * pageSize + r.Src, Target |-> r.Target]
OriginalFixup(k, i) ==
    LET f == prog.Objects[k].Fixups[i]
    IN  [SrcType |-> f.SrcType, Src |-> f.Src, Target |-> f.Target]

\* Object k's recovered and original fixups are the same multiset.
SameFixups(k) ==
    LET orig == 1..Len(prog.Objects[k].Fixups)
        all == { RecoveredFixup(k, pos) : pos \in RecoveredAt(k) }
               \cup { OriginalFixup(k, i) : i \in orig }
    IN  \A t \in all :
            Cardinality({ pos \in RecoveredAt(k) : RecoveredFixup(k, pos) = t })
                = Cardinality({ i \in orig : OriginalFixup(k, i) = t })

\* C3: reading the written file back succeeds, and every object's recovered
\* fixups (src = page base + page-local src, the copies of a page-straddling
\* fixup counted once) are the multiset of its original fixups.
C3_FixupRoundTrip ==
    wpc = "read" =>
        /\ rd.err = ""
        /\ Len(rd.Objects) = Len(prog.Objects)
        /\ \A k \in 1..Len(prog.Objects) : SameFixups(k)

\* The i-th byte of an object whose stored data is d: zero past the data.
ByteAt(d, i) == IF i <= Len(d) THEN d[i] ELSE 0

\* C4: reading the written file back succeeds and recovers, for every object,
\* the bytes of its data, up to trailing zero-fill within the virtual size.
C4_DataRoundTrip ==
    wpc = "read" =>
        /\ rd.err = ""
        /\ Len(rd.Objects) = Len(prog.Objects)
        /\ \A k \in 1..Len(prog.Objects) :
               LET obj == prog.Objects[k]
                   n == Max(obj.Size, Len(obj.Data))
               IN  /\ Len(rd.Objects[k].Data) <= n
                   /\ \A i \in 1..n : ByteAt(rd.Objects[k].Data, i) = ByteAt(obj.Data, i)

OutObjectHeader(k) == objectHeader(out, OutHeader.ObjectTableOffset + 24 * (k - 1))
OutObjectTable == Slice(out, OutHeader.ObjectTableOffset, OutHeader.ObjectPageTableOffset)
OutObjectPageTable == Slice(out, OutHeader.ObjectPageTableOffset, OutHeader.FixupPageTableOffset)
NumSlots == Len(OutObjectPageTable) \div 4
OutSlot(j) == Slice(OutObjectPageTable, 4 * (j - 1), 4 * j)

\* The slots of the object page table that the object table gives object k.
SlotRange(k) ==
    LET h == OutObjectHeader(k)
    IN  IF h.PageTableIndex = 0 THEN {}
        ELSE h.PageTableIndex .. (h.PageTableIndex + h.NumPageTableEntries - 1)

\* C11: in the written file an object's page table index is 0 exactly when
\* the object has no fixups; otherwise it is 1-based, the object's slots
\* index .. index+entries-1 lie inside the object page table that was written,
\* and the slots of two different objects do not overlap.
C11_PageTableIndex ==
    Serialized =>
        \A k \in 1..Len(prog.Objects) :
            LET h == OutObjectHeader(k)
            IN  /\ (h.PageTableIndex = 0) <=> (Len(prog.Objects[k].Fixups) = 0)
                /\ h.PageTableIndex # 0 =>
                       /\ h.PageTableIndex >= 1
                       /\ h.NumPageTableEntries >= 1
                       /\ SlotRange(k) \subseteq 1..NumSlots
                /\ \A j \in 1..Len(prog.Objects) :
                       j # k => SlotRange(j) \cap SlotRange(k) = {}

\* A written file of two objects with fixups, the second one's slots
\* following the first one's.
C11_Witness ==
    /\ Serialized
    /\ Len(prog.Objects) = 2
    /\ SlotRange(1) # {}
    /\ SlotRange(2) # {}
    /\ \A a \in SlotRange(1) : \A b \in SlotRange(2) : a < b

\* The number of pages of all objects together.
TotalPages ==
    SumTo([k \in 1..Len(prog.Objects) |-> pagecount(prog.Objects[k].Size)], Len(prog.Objects))

\* No object of the program has a fixup.
NoFixups == \A k \in 1..Len(prog.Objects) : Len(prog.Objects[k].Fixups) = 0

\* C12: when no object has a fixup, the fixup page table of the written file
\* holds pagecount(size) zero entries for each object, plus the sentinel entry.
C12_EmptyFixupPageTable ==
    (Serialized /\ NoFixups) => OutFixupPageTable = Zeros(TotalPages + 1)

\* The src of fixup f is on a page boundary in the sense of C13.
OnBoundary(f) == f.Src % pageSize = 0 \/ f.Src % pageSize = pageSize - 3

\* The records of the bucket of page pi of object k that are the record of f
\* with src local to page pi.
RecordsOf(k, pi, f) ==
    { j \in 1..Len(Bucket(k, pi)) :
        LET r == Bucket(k, pi)[j]
        IN  /\ r.Src = f.Src - pi * pageSize
            /\ r.SrcType = f.SrcType
            /\ r.Target = f.Target }

\* C13: a fixup whose src is a multiple of the page size, or 3 less than one,
\* has its record in exactly one bucket of its object, the bucket of page
\* src >> 12, and the record's src is src % pageSize.
C13_BoundaryFixupInOneBucket ==
    \A k \in 1..Len(ret) : \A i \in 1..Len(prog.Objects[k].Fixups) :
        LET f == prog.Objects[k].Fixups[i]
            home == ShrS(f.Src, pageBits)
        IN  OnBoundary(f) =>
                /\ home < Len(ret[k].fixup)
                /\ \E j \in 1..Len(Bucket(k, home)) :
                       LET r == Bucket(k, home)[j]
                       IN  /\ r.Src = f.Src % pageSize
                           /\ r.SrcType = f.SrcType
                           /\ r.Target = f.Target
                /\ \A pi \in 0..(Len(ret[k].fixup) - 1) :
                       pi # home => RecordsOf(k, pi, f) = {}

\* An object written with a fixup at the first byte of its second page and
\* another written with a fixup 3 bytes before the end of its first page.
C13_Witness ==
    /\ Serialized
    /\ \E k \in 1..Len(ret) : \E i \in 1..Len(prog.Objects[k].Fixups) :
           /\ prog.Objects[k].Fixups[i].Src = pageSize
           /\ Len(ret[k].fixup) = 2
    /\ \E k \in 1..Len(ret) : \E i \in 1..Len(prog.Objects[k].Fixups) :
           /\ prog.Objects[k].Fixups[i].Src = pageSize - 3
           /\ Len(ret[k].fixup) = 2

\* C15: the header is exactly 0xAC (172) bytes: the fields of ProgramHeader
\* written one after the other take 172 bytes, and the first block the
\* serializer emits is 172 bytes that begin with the signature "LE"; the
\* object table of the written file starts right after them.
C15_HeaderSize ==
    /\ binarySize(ProgramHeaderFields, Len(ProgramHeaderFields)) = 172
    /\ wpc \in {"blocks", "written", "read"} =>
           /\ Len(blocks[1]) = 172
           /\ Slice(blocks[1], 0, 2) = << 76, 69 >>
    /\ Serialized =>
           /\ Slice(out, 0, 172) = blocks[1]
           /\ OutHeader.ObjectTableOffset = 172

\* A written file of two objects whose header names 172 as the offset of the
\* object table.
C15_Witness ==
    /\ Serialized
    /\ Len(prog.Objects) = 2
    /\ Len(out) > 172
    /\ OutHeader.ObjectTableOffset = Len(blocks[1])

\* C16: the object table of the written file is exactly 24 bytes per object:
\* one record per object, in order, with the object's size at +0, its base
\* address at +4 and its flags at +8; the header field at 0x44 is the number
\* of objects.
C16_ObjectTable ==
    Serialized =>
        /\ Len(OutObjectTable) = 24 * Len(prog.Objects)
        /\ OutObjectTable = blocks[2]
        /\ Uint32(out, 68) = Len(prog.Objects)
        /\ \A k \in 1..Len(prog.Objects) :
               LET rec == Slice(OutObjectTable, 24 * (k - 1), 24 * k)
               IN  /\ Uint32(rec, 0) = prog.Objects[k].Size
                   /\ Uint32(rec, 4) = prog.Objects[k].Addr
                   /\ Uint32(rec, 8) = prog.Objects[k].Flags

\* A written file of two objects that differ in size, address and flags.
C16_Witness ==
    /\ Serialized
    /\ Len(prog.Objects) = 2
    /\ Len(OutObjectTable) = 48
    /\ prog.Objects[1].Size # prog.Objects[2].Size
    /\ prog.Objects[1].Addr # prog.Objects[2].Addr
    /\ prog.Objects[1].Flags # prog.Objects[2].Flags

\* The pages (0-based) of object k in which a byte of a fixup of k lies.
PagesWithFixups(k) ==
    UNION { { ShrS(prog.Objects[k].Fixups[i].Src + b, pageBits) : b \in 0..3 } :
            i \in 1..Len(prog.Objects[k].Fixups) }

\* The number of pages with fixups of all objects together.
TotalPagesWithFixups ==
    SumTo([k \in 1..Len(prog.Objects) |-> Cardinality(PagesWithFixups(k))],
          Len(prog.Objects))

\* C17: in the written file every object has one slot of the object page
\* table for each of its pages that has a fixup and none for a page without
\* fixups, the slots are [0, hi, lo, 0] with hi:lo numbering the pages with
\* fixups of all objects 1, 2, ..., and the fixup page table has one entry
\* more than there are pages with fixups.
C17_SlotPerPageWithFixups ==
    Serialized =>
        /\ \A k \in 1..Len(prog.Objects) :
               OutObjectHeader(k).NumPageTableEntries = Cardinality(PagesWithFixups(k))
        /\ NumSlots = TotalPagesWithFixups
        /\ \A j \in 1..NumSlots : OutSlot(j) = << 0, j \div 256, j % 256, 0 >>
        /\ Len(OutFixupPageTable) = TotalPagesWithFixups + 1

\* The bytes of the bucket of page pi (0-based) of the k-th object written.
BucketBytes(k, pi) ==
    LET e == ret[k].fixup[pi + 1]
    IN  Slice(fixupdata.records, BuiltPageTable[e], BuiltPageTable[e + 1])

\* The fixups of the k-th object whose first byte is in page pi, in the
\* order of the object's fixup list.
AssignedTo(k, pi) ==
    SelectSeq(prog.Objects[k].Fixups, LAMBDA f : ShrS(f.Src, pageBits) = pi)

\* The records of a list of fixups of page pi, one after the other.
RECURSIVE RecordsFor(_, _, _)
RecordsFor(fs, k, pi) ==
    IF k > Len(fs) THEN << >>
    ELSE fixupRecord([fs[k] EXCEPT !.Src = @ - pi * pageSize]) \o RecordsFor(fs, k + 1, pi)

\* C25: the counting pass and the placement pass of fixupdata.write agree:
\* the write never runs past the array, and the bucket of every page of every
\* object holds exactly one record for each fixup assigned to that page and
\* nothing else, in the order of the object's fixup list.
C25_BucketSort ==
    /\ wpc # "panic"
    /\ \A k \in 1..Len(ret) : \A pi \in 0..(Len(ret[k].fixup) - 1) :
           BucketBytes(k, pi) = RecordsFor(AssignedTo(k, pi), 1, pi)

\* An object has been written whose fixup list is not in address order and
\* has fixups in two pages, two of them in the same page.
C25_Witness ==
    \E k \in 1..Len(ret) :
        /\ Len(AssignedTo(k, 0)) = 2
        /\ AssignedTo(k, 0)[1].Src > AssignedTo(k, 0)[2].Src
        /\ Len(AssignedTo(k, 1)) = 1
        /\ Len(ret[k].fixup) = 2
        /\ BucketBytes(k, 1) # << >>

\* The data-page area built so far, and the pages of the data blocks of the
\* first n objects.
DataArea == Concat(pagedata.data, 1)
RECURSIVE PagesBefore(_)
PagesBefore(n) ==
    IF n = 0 THEN 0
    ELSE PagesBefore(n - 1) + (Len(prog.Objects[n].Data) + pageSize - 1) \div pageSize

\* The end of the last non-empty data block before the k-th, 0 if none.
RECURSIVE EndBefore(_)
EndBefore(k) ==
    IF k = 1 THEN 0
    ELSE IF Len(prog.Objects[k - 1].Data) > 0
         THEN (ret[k - 1].first - 1) * pageSize + Len(prog.Objects[k - 1].Data)
         ELSE EndBefore(k - 1)

\* C26: after any sequence of pagedata.write calls every non-empty data block
\* starts at (first - 1) * PAGE_SIZE of the data-page area, first being 1 +
\* the pages of the earlier blocks; the bytes between two blocks are zero; an
\* empty block adds no bytes and no pages; the area ends with the last block.
C26_DataBlockPlacement ==
    LET area == DataArea IN
    /\ Len(area) = EndBefore(Len(ret) + 1)
    /\ pagedata.count = PagesBefore(Len(ret))
    /\ \A k \in 1..Len(ret) :
           LET data == prog.Objects[k].Data
               start == (ret[k].first - 1) * pageSize
           IN  IF Len(data) > 0
               THEN /\ ret[k].first = 1 + PagesBefore(k - 1)
                    /\ ret[k].count = PagesBefore(k) - PagesBefore(k - 1)
                    /\ Slice(area, start, start + Len(data)) = data
                    /\ Slice(area, EndBefore(k), start) = Zeros(start - EndBefore(k))
               ELSE /\ ret[k].first = 0
                    /\ ret[k].count = 0

\* A block has been written after one that ended mid-page.
C26_Witness ==
    \E k \in 2..Len(ret) :
        /\ Len(prog.Objects[k].Data) > 0
        /\ Len(prog.Objects[k - 1].Data) % pageSize # 0

\* An empty block has been written after a block that ended mid-page.
C26_WitnessEmpty ==
    \E k \in 2..Len(ret) :
        /\ Len(prog.Objects[k].Data) = 0
        /\ Len(prog.Objects[k - 1].Data) % pageSize # 0

\* The fixups handed to appendFixup for the objects written so far: each
\* fixup of each object, its Src relative to the page of its first byte.
WrittenFixups ==
    UNION { { [prog.Objects[k].Fixups[j] EXCEPT !.Src = @ - ShrS(@, pageBits) * pageSize] :
                j \in 1..Len(prog.Objects[k].Fixups) } : k \in 1..Len(ret) }

\* C27: every record appendFixup emits is 7 or 9 bytes long; it is 9 bytes
\* long and has flag 0x10 set exactly when target.off > 0x7FFF, no other flag
\* is set, byte 0 is the source type, bytes 2..3 the page-local src as a
\* little-endian 16-bit value, byte 4 the target object, and the rest the
\* target offset in 2 or 4 little-endian bytes.
C27_RecordLayout ==
    \A f \in WrittenFixups :
        LET r == appendFixup(f, << >>)
            long == f.Target.Off > 32767
        IN  /\ Len(r) \in {7, 9}
            /\ Len(r) = 9 <=> long
            /\ r[2] = (IF long THEN 16 ELSE 0)
            /\ r[1] = f.SrcType
            /\ I16(r[3] + 256 * r[4]) = f.Src
            /\ r[5] = f.Target.Obj
            /\ IF long THEN Uint32(r, 5) = f.Target.Off
               ELSE r[6] + 256 * r[7] = f.Target.Off % 65536

\* Records of both forms have been emitted, one of them for a relative fixup.
C27_Witness ==
    /\ \E f \in WrittenFixups : f.Target.Off > 32767
    /\ \E f \in WrittenFixups : f.Target.Off <= 32767 /\ f.SrcType = SrcRelative32
    /\ fixupdata.records # << >>

\* C30: reading a record back gives the fixup it was made from: for every
\* fixup with source type 0x07 or 0x08, a page-local src, a target object in
\* 1..255 and any signed 32-bit target offset, readFixup on the bytes of
\* appendFixup consumes all of them and returns the same source type, src,
\* target object and target offset.
C30_RecordRoundTrip ==
    \A f \in WrittenFixups :
        (/\ f.SrcType \in {SrcOffset32, SrcRelative32}
         /\ f.Src \in -32768..32767
         /\ f.Target.Obj \in 1..255)
        => LET r == appendFixup(f, << >>)
               x == readFixup(r)
           IN  /\ x.err = ""
               /\ x.n = Len(r)
               /\ x.fix.SrcType = f.SrcType
               /\ x.fix.Src = f.Src
               /\ x.fix.Target = f.Target

\* The round trip of the records whose target offset is not negative.
RoundTripNonNegative ==
    \A f \in WrittenFixups :
        f.Target.Off >= 0 => readFixup(appendFixup(f, << >>)).fix = f

\* C21: the written file is the header, the object table, the object page
\* table, the fixup page table, the fixup records and the data pages, one
\* right after the other, and the header fields patched in give their real
\* positions and sizes: 0x40 = 0xAC, 0x38 = the length of the two object
\* tables, 0x68 = 0xAC + 0x38, 0x6C = 0x68 + the length of the fixup page
\* table, 0x30 = the length of the fixup page table and records, and
\* 0x80 = 0x68 + 0x30, where the first byte of the data pages is.
C21_BlocksContiguous ==
    Serialized =>
        LET data == Concat(pagedata.data, 1)
        IN  /\ out = SubSeq(out, 1, 172) \o objdata.object \o objdata.page
                     \o fixupdata.pages \o fixupdata.records \o data
            /\ Uint32(out, 64) = 172
            /\ Uint32(out, 56) = Len(objdata.object) + Len(objdata.page)
            /\ Uint32(out, 104) = 172 + Uint32(out, 56)
            /\ Uint32(out, 108) = Uint32(out, 104) + Len(fixupdata.pages)
            /\ Uint32(out, 48) = Len(fixupdata.pages) + Len(fixupdata.records)
            /\ Uint32(out, 128) = Uint32(out, 104) + Uint32(out, 48)
            /\ Slice(out, Uint32(out, 128), Len(out)) = data

\* A written file in which none of the six parts is empty.
C21_Witness ==
    /\ Serialized
    /\ Len(objdata.object) > 0
    /\ Len(objdata.page) > 0
    /\ Len(fixupdata.pages) > 0
    /\ Len(fixupdata.records) > 0
    /\ Len(pagedata.data) > 0
    /\ Uint32(out, 128) < Len(out)

\* ------------------------------------------------------------------------
\* Properties of the conversion (specification Spec)
\* ------------------------------------------------------------------------

\* The relocations of the file's relocation section, and the one
\* addRelocation is about to handle.
FileRels == elf.Sections[SecRel + 1].Rels
CurrentRel == FileRels[ri + 1]

RelSym(rel) == rel.Info \div 256
RelType(rel) == rel.Info % 256

\* The positions of the segments whose range holds the 4 bytes of the site.
\* The segments lie below 2^31, so an offset of 2^31 or more (a negative
\* pattern) is in none of them.
SiteSegs(rel) ==
    { k \in 1..Len(segs) :
        segs[k].addr <= rel.Off /\ rel.Off + 4 <= segs[k].addr + segs[k].size }
SiteSeg(rel) == CHOOSE k \in SiteSegs(rel) : \A j \in SiteSegs(rel) : k <= j

\* A relocation the translator processes: its site is inside a segment, its
\* symbol index is valid, and the symbol is resolved and not absolute.
Processed(rel) ==
    /\ SiteSegs(rel) # {}
    /\ RelSym(rel) \in 1..Len(syms)
    /\ syms[RelSym(rel)].Ref.Obj \notin {0, objAbsolute}

\* All fixups of the objects under construction, as [obj, fix].
SegFixups ==
    UNION { { [obj |-> k, fix |-> segs[k].object.Fixups[j]] :
                j \in 1..Len(segs[k].object.Fixups) } : k \in 1..Len(segs) }

\* All fixups of the program returned, as [obj, fix].
ProgFixups ==
    UNION { { [obj |-> k, fix |-> prog.Objects[k].Fixups[j]] :
                j \in 1..Len(prog.Objects[k].Fixups) } : k \in 1..Len(prog.Objects) }

\* C5: no object k holds a fixup of type Relative32 whose target is object k
\* itself, during the conversion and in the program it returns: an R_386_PC32
\* relocation against a symbol of the object that holds the site emits nothing.
C5_NoRelativeFixupWithinObject ==
    \A x \in SegFixups \cup ProgFixups :
        ~(x.fix.SrcType = SrcRelative32 /\ x.fix.Target.Obj = x.obj)

\* A finished conversion of a file with an R_386_PC32 relocation whose symbol
\* is in the object that holds the site.
C5_Witness ==
    /\ cpc = "done"
    /\ \E j \in 1..Len(FileRels) :
           /\ Processed(FileRels[j])
           /\ RelType(FileRels[j]) = R_386_PC32
           /\ syms[RelSym(FileRels[j])].Ref.Obj = SiteSeg(FileRels[j])

\* The number of LOAD segments of the file.
NumLoad == Cardinality({ k \in 1..Len(elf.Progs) : elf.Progs[k].Type = PT_LOAD })

\* C6: after a successful conversion the program has one object per LOAD
\* segment, and every fixup has type Offset32 or Relative32 and a target
\* object in 1..NumObjects (never 0, never the absolute sentinel).
C6_FixupTypesAndTargets ==
    cpc = "done" =>
        /\ Len(prog.Objects) = NumLoad
        /\ \A x \in ProgFixups :
               /\ x.fix.SrcType \in {SrcOffset32, SrcRelative32}
               /\ x.fix.Target.Obj \in 1..Len(prog.Objects)

\* A finished conversion that emitted a fixup, of a file that also has a
\* relocation against an absolute symbol with its site inside a segment.
C6_Witness ==
    /\ cpc = "done"
    /\ ProgFixups # {}
    /\ \E j \in 1..Len(FileRels) :
           /\ SiteSegs(FileRels[j]) # {}
           /\ RelSym(FileRels[j]) \in 1..Len(syms)
           /\ syms[RelSym(FileRels[j])].Ref.Obj = objAbsolute

\* The symbols named _stack_end that resolve to an object.
StackEndSyms ==
    { i \in 1..Len(syms) : syms[i].name = "_stack_end" /\ syms[i].Ref.Obj \in 1..Len(segs) }

\* C7: once the symbols are resolved and the search for _stack_end is over,
\* either no symbol named _stack_end resolves to an object and the conversion
\* has failed with an error that mentions _stack_end, without a program, or
\* the stack reference is the (object, offset) of such a symbol.
C7_StackEnd ==
    (syms # << >> /\ cpc # "stack") =>
        IF StackEndSyms = {}
        THEN cpc = "error" /\ cerr = "could not find _stack_end" /\ prog = NoProgram
        ELSE /\ \E i \in StackEndSyms : stack = syms[i].Ref
             /\ cpc = "done" => prog.Stack = stack

\* C8: a relocation the translator processes whose type is neither R_386_32
\* nor R_386_PC32 makes the conversion fail with the error "unsupported
\* relocation type", and no program is produced.
C8_UnsupportedRelocationType ==
    [][(/\ cpc = "relocs"
        /\ Processed(CurrentRel)
        /\ RelType(CurrentRel) \notin {R_386_32, R_386_PC32})
       => (/\ cpc' = "error"
           /\ cerr' = "unsupported relocation type"
           /\ prog' = NoProgram)]_vars

\* The little-endian u32 the segment at position k holds at the site of rel:
\* the bytes of the file data, and zero in the part of the segment that the
\* file does not back.
StoredAt(rel, k) ==
    LET d == elf.Progs[segs[k].index + 1].Data
        o == rel.Off - segs[k].addr
    IN  Join32(ByteAt(d, o + 3) + 256 * ByteAt(d, o + 4),
               ByteAt(d, o + 1) + 256 * ByteAt(d, o + 2))

\* The relocations C9 is about: processed, and of type R_386_32, or of type
\* R_386_PC32 against a symbol of another object.
EmitsFixup(rel) ==
    /\ Processed(rel)
    /\ \/ RelType(rel) = R_386_32
       \/ RelType(rel) = R_386_PC32 /\ syms[RelSym(rel)].Ref.Obj # SiteSeg(rel)

\* The fixup C9 states for rel.
ExpectedFixup(rel) ==
    LET k == SiteSeg(rel)
        sym == syms[RelSym(rel)]
        val == StoredAt(rel, k)
    IN  [SrcType |-> IF RelType(rel) = R_386_32 THEN 7 ELSE 8,
         Src |-> rel.Off - segs[k].addr,
         Target |-> [Obj |-> sym.Ref.Obj,
                     Off |-> IF RelType(rel) = R_386_32
                             THEN Add32(sym.Ref.Off, Sub32(val, sym.addr))
                             ELSE Add32(sym.Ref.Off,
                                        Sub32(Add32(Add32(val, rel.Off), 4), sym.addr))],
         Add |-> 0]

\* C9: handling a relocation of type R_386_32, or of type R_386_PC32 against
\* a symbol of another object, appends exactly one fixup to the object that
\* holds the site and changes no other object: src = offset - base, add = 0,
\* target.obj = the symbol's object, and (type, target.off) =
\* (7, sym.off + (val - sym.value)) or (8, sym.off + (val + offset + 4 -
\* sym.value)), modulo 2^32, val being the u32 the file stores at the site.
C9_FixupOfRelocation ==
    [][(cpc = "relocs" /\ EmitsFixup(CurrentRel))
       => (/\ cpc' \in {"relocs", "sections"}
           /\ segs' = [segs EXCEPT ![SiteSeg(CurrentRel)].object.Fixups =
                                       Append(@, ExpectedFixup(CurrentRel))])]_vars

\* The positions of the segments that hold addr: base <= addr < base + size.
InSegs(addr) ==
    { k \in 1..Len(segs) : segs[k].addr <= addr /\ addr < segs[k].addr + segs[k].size }

\* The symbol stage and the search for _stack_end are over.
StackSearched == syms # << >> /\ cpc # "stack"

\* C14: when a symbol named _stack_end has the address base + size of the
\* object at position k (one past its end), the search for _stack_end does not
\* fail and the stack reference is (k, size); the program returned carries it.
C14_StackAtObjectEnd ==
    \A k \in 1..Len(segs) : \A i \in 1..Len(elf.Symbols) :
        (/\ StackSearched
         /\ elf.Symbols[i].Name = "_stack_end"
         /\ elf.Symbols[i].Value = segs[k].addr + segs[k].size)
        => /\ cerr # "could not find _stack_end"
           /\ stack = [Obj |-> k, Off |-> segs[k].size]
           /\ cpc = "done" => prog.Stack = stack

\* ref is the reference C18 states for addr when addr lies inside exactly one
\* segment: (position of the segment, addr - base).
ResolvesByPosition(addr, ref) ==
    \A k \in 1..Len(segs) :
        InSegs(addr) = {k} => ref = [Obj |-> k, Off |-> addr - segs[k].addr]

\* C18: the entry point, and every symbol that is not absolute, whose address
\* lies inside exactly one segment resolves to (k, addr - base), k being the
\* 1-based position of that segment in the list of LOAD segments.
C18_ResolvesToSegmentPosition ==
    /\ (segs # << >> /\ cpc \notin {"assign", "entry"}) =>
           ResolvesByPosition(elf.Entry, entry)
    /\ \A i \in 1..Len(syms) :
           elf.Symbols[i].Section # SHN_ABS =>
               ResolvesByPosition(elf.Symbols[i].Value, syms[i].Ref)

\* The symbols of the file that are neither absolute nor inside a segment.
Unlocated ==
    { i \in 1..Len(elf.Symbols) :
        elf.Symbols[i].Section # SHN_ABS /\ InSegs(elf.Symbols[i].Value) = {} }

\* The relocations whose site is inside a segment and whose symbol is i.
UsesOf(i) == { j \in 1..Len(FileRels) : SiteSegs(FileRels[j]) # {} /\ RelSym(FileRels[j]) = i }

\* C19: resolving the symbols of a file that has symbols neither absolute nor
\* inside a segment does not fail: the conversion goes on to the search for
\* _stack_end with those symbols left at object 0; and an unresolved-symbol
\* error is only ever reported when a relocation with its site inside a
\* segment refers to such a symbol.
C19_UnlocatedSymbolTolerated ==
    [][/\ (cpc = "symbols" /\ Unlocated # {}) =>
              /\ cpc' = "stack"
              /\ \A i \in Unlocated : syms'[i].Ref.Obj = 0
       /\ cerr' = "unresolved symbol" => \E i \in Unlocated : UsesOf(i) # {}]_vars

\* The errors each stage of the conversion can end with.
StageErrors(stage) ==
    CASE stage = "assign" ->
             { "segment is loadable but not readable, which is unsupported",
               "segment has unknown flags", "could not read segment",
               "segment has type which is unsupported" }
      [] stage = "entry" -> { "could not resolve entry point" }
      [] stage = "symbols" -> { "symbol has invalid section" }
      [] stage = "stack" -> { "could not find _stack_end" }
      [] stage = "sections" ->
             { "relocation section refers to invalid section",
               "unsupported relocation section type",
               "REL section length is not a multiple of 8" }
      [] stage = "relocs" ->
             { "symbol reference out of bounds", "unresolved symbol",
               "unsupported relocation type" }
      [] OTHER -> {}

\* The order of the stages as C20 gives it, and as ConvertToLELX runs them.
\* The relocation sections ("sections", "relocs") are one stage, and "done"
\* is the serialization of the program returned.
StatedRank(stage) ==
    CASE stage = "assign" -> 1 [] stage = "symbols" -> 2 [] stage = "entry" -> 3
      [] stage = "stack" -> 4 [] stage \in {"sections", "relocs"} -> 5 [] OTHER -> 6
CodeRank(stage) ==
    CASE stage = "assign" -> 1 [] stage = "entry" -> 2 [] stage = "symbols" -> 3
      [] stage = "stack" -> 4 [] stage \in {"sections", "relocs"} -> 5 [] OTHER -> 6

\* One step of a conversion whose stages run in the order rank gives: a
\* conversion that has failed takes no further step; a step stays in its stage
\* or moves to the next one; a stage that reports an error ends the conversion
\* with an error of that stage and without a program; nothing is serialized
\* before the conversion is done.
StageStep(rank(_)) ==
    /\ cpc \notin {"error", "panic"}
    /\ cpc' \notin {"error", "panic"} =>
           /\ rank(cpc) <= rank(cpc')
           /\ rank(cpc') <= rank(cpc) + 1
    /\ (cpc' = "error") <=> (cerr' # "")
    /\ cpc' = "error" =>
           /\ cerr' \in StageErrors(cpc)
           /\ prog' = NoProgram
           /\ wpc' = "idle"
    /\ wpc' # "idle" => cpc' = "done"

\* C20 (as stated): the stages run in the order assign segments, resolve
\* symbols, resolve entry point, find _stack_end, translate relocations,
\* serialize; the first stage that fails ends the conversion with its error
\* and no later stage runs.
C20_StageOrderStated == [][StageStep(StatedRank)]_vars

\* C20: the stages run in the order assign segments, resolve entry point,
\* resolve symbols, find _stack_end, translate relocations, serialize; the
\* first stage that fails ends the conversion with its error and no later
\* stage runs, so the error of an earlier stage takes precedence.
C20_StageOrder == [][StageStep(CodeRank)]_vars

\* A conversion that ended with the entry point error for a file whose symbols
\* cannot be resolved either.
C20_Witness ==
    /\ cpc = "error"
    /\ cerr = "could not resolve entry point"
    /\ LET r == resolveSymbols(elf, segs) IN r.err # "" \/ r.panic


\* Handling the current relocation leaves the conversion without error and
\* every object's fixup list as it was.
SkipsCurrentRel ==
    /\ cpc' \in {"relocs", "sections"}
    /\ cerr' = ""
    /\ segs' = segs

\* C22: a relocation whose four bytes [offset, offset + 4) are not inside any
\* segment produces no fixup and no error and leaves every object's fixup
\* list unchanged, whatever its symbol index and type.
C22_SiteOutsideSkipped ==
    [][(cpc = "relocs" /\ SiteSegs(CurrentRel) = {}) => SkipsCurrentRel]_vars

\* The same for the relocations whose offset + 4 does not wrap around 2^32.
SiteOutsideSkippedNoWrap ==
    [][(cpc = "relocs" /\ SiteSegs(CurrentRel) = {} /\ CurrentRel.Off >= 0)
       => SkipsCurrentRel]_vars

\* C28: reading the value the linker stored never indexes outside the
\* object's data: handling a relocation, whatever its 32-bit offset, even in
\* the part of a segment that the file does not back or with offset + 4
\* wrapping around 2^32, ends in a fixup, a skip or an error, never in a crash.
C28_ValueReadInBounds ==
    [][cpc = "relocs" => cpc' # "panic"]_vars

\* The same for the relocations whose site is in the bytes the file backs.
ValueReadInBoundsInFileData ==
    [][(/\ cpc = "relocs"
        /\ \E k \in 1..Len(segs) :
               /\ segs[k].addr <= CurrentRel.Off
               /\ CurrentRel.Off + 4 <= segs[k].addr + Len(segs[k].object.Data))
       => cpc' # "panic"]_vars

\* Reference r names an object of the program returned and a place in it.
ValidRef(r) ==
    /\ r.Obj \in 1..Len(prog.Objects)
    /\ r.Off \in 0..prog.Objects[r.Obj].Size

\* C29: after a successful conversion the entry and the stack reference are
\* valid 1-based object numbers with an offset in 0..virtual size of that
\* object, in the program and, once the file is written, in its header (EIP
\* at 0x18, ESP at 0x20): ESP.obj is never 0 nor the absolute sentinel.
C29_EntryAndStackValid ==
    cpc = "done" =>
        /\ ValidRef(prog.Entry)
        /\ ValidRef(prog.Stack)
        /\ Serialized => ValidRef(OutHeader.EIP) /\ ValidRef(OutHeader.ESP)

\* The same for the entry reference alone and, in files whose program
\* headers are all LOAD segments and whose _stack_end is not an absolute
\* symbol, for the stack reference.
EntryValid == cpc = "done" => ValidRef(prog.Entry)
StackValidWhenInSegment ==
    (/\ cpc = "done"
     /\ \A k \in 1..Len(elf.Progs) : elf.Progs[k].Type = PT_LOAD
     /\ \A i \in 1..Len(syms) : syms[i].name = "_stack_end" => syms[i].Ref.Obj # objAbsolute)
    => ValidRef(prog.Stack)

\* The LOAD program headers of the file, in program-header order.
LoadProgs == SelectSeq(elf.Progs, LAMBDA p : p.Type = PT_LOAD)

\* A program header assignSegments rejects.
BadHeader(p) ==
    \/ p.Type \notin {PT_NULL, PT_NOTE, ptGNUEHFrame, PT_LOAD}
    \/ /\ p.Type = PT_LOAD
       /\ \/ p.Flags % 8 < PF_R
          \/ p.Flags >= 8
BadHeaders == { k \in 1..Len(elf.Progs) : BadHeader(elf.Progs[k]) }

\* The segments have been assigned without error.
Assigned == cpc # "assign" /\ ~(cpc = "error" /\ cerr \in StageErrors("assign"))

\* Object o is the LOAD program header p.
ObjectOfHeader(o, p) ==
    /\ o.Size = p.Memsz
    /\ o.Addr = p.Vaddr
    /\ o.Data = SubSeq(p.Data, 1, p.Filesz)

\* C23: the objects are exactly the LOAD program headers in program-header
\* order: object i is the i-th LOAD segment, with virtual size Memsz, base
\* address Vaddr and the Filesz bytes of the file as data; NULL, NOTE and
\* GNU_EH_FRAME headers are skipped without error and take no object number.
C23_ObjectsAreLoadSegments ==
    /\ (cpc # "assign" /\ BadHeaders = {}) => Assigned
    /\ Assigned =>
           /\ Len(segs) = Len(LoadProgs)
           /\ \A i \in 1..Len(segs) : ObjectOfHeader(segs[i].object, LoadProgs[i])
    /\ cpc = "done" =>
           /\ Len(prog.Objects) = Len(LoadProgs)
           /\ \A i \in 1..Len(prog.Objects) : ObjectOfHeader(prog.Objects[i], LoadProgs[i])

\* A finished conversion of a file with a discarded header before its LOAD
\* segments, one of them with fewer bytes in the file than in memory.
C23_Witness ==
    /\ cpc = "done"
    /\ elf.Progs[1].Type = PT_NOTE
    /\ Len(prog.Objects) = 2
    /\ Len(prog.Objects[2].Data) < prog.Objects[2].Size

\* A finished conversion of a file with GNU_EH_FRAME and NULL headers.
C23_WitnessDiscarded ==
    /\ cpc = "done"
    /\ \E k \in 1..Len(elf.Progs) : elf.Progs[k].Type = ptGNUEHFrame
    /\ \E k \in 1..Len(elf.Progs) : elf.Progs[k].Type = PT_NULL

\* The flags of object o are those of the LOAD program header p.
FlagsOfHeader(o, p) ==
    /\ HasBit(o.Flags, ObjR)
    /\ HasBit(o.Flags, Obj32Bit)
    /\ HasBit(o.Flags, ObjW) <=> HasBit(p.Flags, PF_W)
    /\ HasBit(o.Flags, ObjX) <=> HasBit(p.Flags, PF_X)

\* C24: a program header of a type other than NULL, NOTE, GNU_EH_FRAME and
\* LOAD, a LOAD segment without PF_R and a LOAD segment with a flag bit
\* outside PF_R|PF_W|PF_X each make the conversion fail in assignSegments,
\* with the index of the first such header in the error and without a
\* program; every object produced has the R and the 32-bit flag, and W and X
\* exactly when the segment has PF_W and PF_X.
C24_SegmentValidation ==
    cpc # "assign" =>
        IF BadHeaders # {}
        THEN /\ cpc = "error"
             /\ cerr \in StageErrors("assign")
             /\ prog = NoProgram
             /\ assignSegments(elf.Progs, 1, << >>).at + 1 \in BadHeaders
             /\ \A k \in BadHeaders : assignSegments(elf.Progs, 1, << >>).at + 1 <= k
        ELSE /\ \A i \in 1..Len(segs) : FlagsOfHeader(segs[i].object, LoadProgs[i])
             /\ \A i \in 1..Len(prog.Objects) : FlagsOfHeader(prog.Objects[i], LoadProgs[i])

\* A conversion has failed on a header of an unsupported type.
C24_Witness ==
    /\ cpc = "error"
    /\ \E k \in BadHeaders : elf.Progs[k].Type = PT_DYNAMIC

\* A conversion has failed on a LOAD segment that is not readable, one on a
\* LOAD segment with an unknown flag, and one has produced its objects.
C24_WitnessNotReadable ==
    cpc = "error" /\ \E k \in BadHeaders : elf.Progs[k].Flags = PF_W
C24_WitnessUnknownFlag ==
    cpc = "error" /\ \E k \in BadHeaders : elf.Progs[k].Flags >= 8 /\ k = 3
C24_WitnessObjects ==
    cpc = "done" /\ BadHeaders = {} /\ Len(prog.Objects) = 2

=============================================================================
